---- MODULE Spec2Model ----
(***************************************************************************)
(* AgentVerse orchestrator (src/agents/agent_a/orchestrator.py).           *)
(*                                                                         *)
(* The module models the workflow driver run_workflow with its four        *)
(* stages, the horizontal and vertical deliberation protocols, the         *)
(* executor fan-out on pool threads, the llm_requests log, and the pure    *)
(* helpers (_parse_json_response, the expert list built by                 *)
(* recruit_experts, the overrides of evaluate_results).                    *)
(*                                                                         *)
(* Texts are abstracted to what the code inspects: a worker response is    *)
(* its success flag and whether it holds the sentinel; an LLM answer is    *)
(* the dictionary the parser produced from it.  The parser itself is       *)
(* modelled on token sequences.                                            *)
(*                                                                         *)
(* The last part models the inference backend (src/llm/serve_llm.py): the  *)
(* concurrent handle_chat coroutines, the in-flight counter, the request   *)
(* ids and the lifecycle lines each request prints; and the worker         *)
(* transport _call_agent_b with the requests it posts.                     *)
(***************************************************************************)
EXTENDS Integers, Sequences, FiniteSets, TLC

VARIABLES
    AGENT_B_URLS,   \* module-level list of worker endpoints (lines 49-55)
    DEFAULT_AGENT_B_URL, \* module-level default worker URL (line 48)
    http_posts,     \* the URLs _call_agent_b posted a request to, in order
    state,          \* the AgentVerseState of the running workflow
    pc,             \* position of the driver thread
    feedback,       \* run_workflow's local `feedback`
    hz,             \* locals of _horizontal_discussion
    vt,             \* locals of _vertical_decision
    ex,             \* locals of execute_actions
    tasks,          \* the pool threads of the current fan-out
    fault_budget,   \* worker-call failures the environment may still inject
    bodies,         \* number of times the loop body was entered
    progress,       \* the events the progress callback has received, in order
    callback_faults,\* times the progress callback may still raise
    llm_answer,     \* the evaluator LLM's parsed answer of the current iteration
    _METRICS_READY, \* serve_llm.py: whether the Prometheus metrics exist (line 79)
    _inflight_count,\* serve_llm.py: module-level counter (line 368)
    INFLIGHT,       \* serve_llm.py: the in-flight gauge (line 101)
    REQUESTS_TOTAL, \* serve_llm.py: the requests counter, per status (line 87)
    handlers,       \* the handle_chat coroutines, one per request
    backend_log,    \* the lifecycle lines the backend printed, in order
    cancellations,  \* handler tasks the environment may still cancel
    arg,            \* input of the pure function under check
    ret             \* its result

transport_vars == <<DEFAULT_AGENT_B_URL, http_posts>>

backend_vars ==
    <<_METRICS_READY, _inflight_count, INFLIGHT, REQUESTS_TOTAL, handlers, backend_log,
      cancellations>>

vars ==
    <<AGENT_B_URLS, transport_vars, state, pc, feedback, hz, vt, ex, tasks, fault_budget,
      bodies, progress, callback_faults, llm_answer, backend_vars, arg, ret>>

(***************************************************************************)
(* Bounds of the model.                                                    *)
(***************************************************************************)
\* longest text (in tokens) handed to the parser
MaxLen == 5

\* longest raw expert list in a recruitment answer (pure check of the builder)
MaxRawList == 6

\* longest AGENT_B_URLS environment list
MaxUrlEntries == 3

\* largest max_iterations a workflow is started with
MaxIterations == 3

\* an absent Optional value, and a present one
None == <<>>

Some(x) == <<x>>

Min(a, b) == IF a < b THEN a ELSE b

Max(a, b) == IF a > b THEN a ELSE b

RECURSIVE SeqsUpTo(_, _)
\* all sequences over S of length 0..n
SeqsUpTo(S, n) ==
    IF n = 0 THEN {<<>>}
    ELSE LET shorter == SeqsUpTo(S, n - 1)
         IN  shorter \cup {Append(s, x) : s \in {t \in shorter : Len(t) = n - 1}, x \in S}

(***************************************************************************)
(* _parse_json_response (lines 375-401), on token sequences.               *)
(*   "F" a triple backtick        "J" the word json (any prose word)       *)
(*   "S" whitespace               "L" {        "R" }                       *)
(*   "K" a quoted key with its colon           "N" a number                *)
(***************************************************************************)
Tokens == {"F", "J", "S", "L", "R", "K", "N"}

\* str.strip(): leading and trailing whitespace removed
RECURSIVE LStrip(_)
LStrip(s) ==
    IF s # <<>> /\ Head(s) = "S" THEN LStrip(Tail(s)) ELSE s

RECURSIVE RStrip(_)
RStrip(s) ==
    IF s # <<>> /\ s[Len(s)] = "S" THEN RStrip(SubSeq(s, 1, Len(s) - 1)) ELSE s

Strip(s) == RStrip(LStrip(s))

\* the JSON grammar json.loads accepts, restricted to the tokens:
\*   value ::= N | L R | L K value R      (whitespace allowed around tokens)
RECURSIVE IsJsonValue(_)
IsJsonValue(s) ==
    LET t == Strip(s)
    IN  \/ t = <<"N">>
        \/ /\ Len(t) >= 2
           /\ t[1] = "L"
           /\ t[Len(t)] = "R"
           /\ LET inner == Strip(SubSeq(t, 2, Len(t) - 1))
              IN  \/ inner = <<>>
                  \/ /\ inner # <<>>
                     /\ Head(inner) = "K"
                     /\ IsJsonValue(Tail(inner))

\* the decoded value: the document without its insignificant whitespace
JsonValue(s) == [kind |-> "json", toks |-> SelectSeq(s, LAMBDA c : c # "S")]

\* json.loads: the decoded value, or JSONDecodeError
json_loads(s) ==
    IF IsJsonValue(s)
    THEN [ok |-> TRUE, value |-> JsonValue(s)]
    ELSE [ok |-> FALSE, value |-> [kind |-> "JSONDecodeError", toks |-> <<>>]]

\* the `default` argument of the callers ({} at lines 470 and 1275)
DefaultValue == [kind |-> "default", toks |-> <<>>]

\* str.find("{") + 1 and str.rfind("}") + 1 (0 when absent)
FindFirst(s, c) ==
    IF \E i \in 1..Len(s) : s[i] = c
    THEN CHOOSE i \in 1..Len(s) : s[i] = c /\ \A j \in 1..(i - 1) : s[j] # c
    ELSE 0

FindLast(s, c) ==
    IF \E i \in 1..Len(s) : s[i] = c
    THEN CHOOSE i \in 1..Len(s) : s[i] = c /\ \A j \in (i + 1)..Len(s) : s[j] # c
    ELSE 0

\* lines 378-388: strip, drop a leading ```json, a leading ```, a trailing ```
StripFences(response) ==
    LET r0 == Strip(response)
        r1 == IF Len(r0) >= 2 /\ r0[1] = "F" /\ r0[2] = "J"
              THEN SubSeq(r0, 3, Len(r0)) ELSE r0
        r2 == IF r1 # <<>> /\ r1[1] = "F" THEN Tail(r1) ELSE r1
        r3 == IF r2 # <<>> /\ r2[Len(r2)] = "F"
              THEN SubSeq(r2, 1, Len(r2) - 1) ELSE r2
    IN  Strip(r3)

\* the slice without the `+ 1` of line 395: the closing brace is cut off
BraceSlice_exclusive_end(response) ==
    LET start == FindFirst(response, "L")
        last  == FindLast(response, "R")
    IN  IF start # 0 /\ last > start
        THEN Some(SubSeq(response, start, last - 1))
        ELSE None

\* lines 394-396: response[start:end] with end = rfind("}") + 1, taken when
\* start != -1 and end > start; <<>> stands for "no candidate"
BraceSlice(response) ==
    LET start == FindFirst(response, "L")
        last  == FindLast(response, "R")
    IN  IF start # 0 /\ last > start
        THEN Some(SubSeq(response, start, last))
        ELSE None

\* lines 375-401; raised = an exception leaves the function
_parse_json_response(response, default) ==
    LET text  == StripFences(response)
        first == json_loads(text)
    IN  IF first.ok
        THEN [raised |-> FALSE, value |-> first.value]
        ELSE LET slice == BraceSlice(text)
             IN  IF slice # None /\ json_loads(slice[1]).ok
                 THEN [raised |-> FALSE, value |-> json_loads(slice[1]).value]
                 ELSE [raised |-> FALSE, value |-> default]

(***************************************************************************)
(* Module configuration (lines 47-55).                                     *)
(***************************************************************************)
\* MAX_PARALLEL_WORKERS, default of line 47
MAX_PARALLEL_WORKERS == 5

\* url.strip() on one comma-separated entry of the environment variable
UrlStrip(u) ==
    CASE u = " "    -> ""
      [] u = " u2 " -> "u2"
      [] OTHER      -> u

\* `not url or not url.strip()` (lines 219, 487, 1053)
IsBlank(u) == UrlStrip(u) = ""

\* line 216: `agent_b_url or DEFAULT_AGENT_B_URL`; an absent or empty
\* argument is falsy, a blank one is not
TargetUrl(agent_b_url, default_url) ==
    IF agent_b_url = <<>> \/ agent_b_url[1] = "" THEN default_url ELSE agent_b_url[1]

\* lines 49-55: the stripped non-empty entries, or the one default URL
AgentBUrls(entries, default_url) ==
    LET stripped == [i \in 1..Len(entries) |-> UrlStrip(entries[i])]
        kept     == SelectSeq(stripped, LAMBDA u : u # "")
    IN  IF kept = <<>> THEN <<default_url>> ELSE kept

(***************************************************************************)
(* recruit_experts: the expert list and the topology (lines 473-531).      *)
(***************************************************************************)
\* dict.get(key, default) on an optional field of a parsed answer
DictGet(field, default) == IF field = None THEN default ELSE field[1]

\* the endpoint index clamped to the list instead of wrapped around
ExpertAt_clamped(raw_experts, urls, idx) ==
    [role     |-> DictGet(raw_experts[idx + 1].role, "executor"),
     endpoint |-> urls[Min(idx, Len(urls) - 1) + 1],
     index    |-> idx]

\* lines 483-507: one Expert per entry of raw_experts[:MAX_PARALLEL_WORKERS]
ExpertAt(raw_experts, urls, idx) ==
    LET endpoint == urls[(idx % Len(urls)) + 1]
    IN  [role     |-> DictGet(raw_experts[idx + 1].role, "executor"),
         endpoint |-> IF IsBlank(endpoint) THEN urls[1] ELSE endpoint,
         index    |-> idx]

\* lines 516-524: the default single executor
DefaultExpert(urls) == [role |-> "executor", endpoint |-> urls[1], index |-> 0]

\* lines 473-524
BuildExperts(raw_experts, urls) ==
    LET n       == Min(Len(raw_experts), MAX_PARALLEL_WORKERS)
        experts == [i \in 1..n |-> ExpertAt(raw_experts, urls, i - 1)]
    IN  IF experts = <<>> THEN <<DefaultExpert(urls)>> ELSE experts

\* str.lower() on the communication_structure strings of the model
Lower(x) == IF x = "Vertical" THEN "vertical" ELSE x

\* lines 527-531: CommunicationStructure(structure_str.lower()), HORIZONTAL on ValueError
ParseStructure(field) ==
    LET structure_str == Lower(DictGet(field, "horizontal"))
    IN  IF structure_str \in {"horizontal", "vertical"} THEN structure_str ELSE "horizontal"

\* the RecruitmentResult of lines 548-553 (the fields the stages read)
BuildRecruitment(parsed, urls) ==
    [experts                 |-> BuildExperts(DictGet(parsed.experts, <<>>), urls),
     communication_structure |-> ParseStructure(parsed.communication_structure)]

(***************************************************************************)
(* evaluate_results: the overrides of lines 1278-1301.                     *)
(***************************************************************************)
\* run_workflow line 1379: min(100, max(0, success_threshold))
ClampThreshold(t) == Min(100, Max(0, t))

\* below the threshold only should_iterate is forced, the LLM's goal_achieved is kept
ThresholdOverride_keeps_goal(e, success_threshold) ==
    IF success_threshold > 0
    THEN IF e.score >= success_threshold
         THEN [e EXCEPT !.goal_achieved = TRUE, !.should_iterate = FALSE]
         ELSE [e EXCEPT !.should_iterate = TRUE]
    ELSE e

\* below the threshold goal_achieved is cleared but the LLM's should_iterate is kept
ThresholdOverride_keeps_should_iterate(e, success_threshold) ==
    IF success_threshold > 0
    THEN IF e.score >= success_threshold
         THEN [e EXCEPT !.goal_achieved = TRUE, !.should_iterate = FALSE]
         ELSE [e EXCEPT !.goal_achieved = FALSE]
    ELSE e

\* the threshold is applied when it is 0 as well
ThresholdOverride_at_zero(e, success_threshold) ==
    IF success_threshold >= 0
    THEN IF e.score >= success_threshold
         THEN [e EXCEPT !.goal_achieved = TRUE, !.should_iterate = FALSE]
         ELSE [e EXCEPT !.goal_achieved = FALSE, !.should_iterate = TRUE]
    ELSE e

\* lines 1289-1295: the user's threshold as source of truth
ThresholdOverride(e, success_threshold) ==
    IF success_threshold > 0
    THEN IF e.score >= success_threshold
         THEN [e EXCEPT !.goal_achieved = TRUE, !.should_iterate = FALSE]
         ELSE [e EXCEPT !.goal_achieved = FALSE, !.should_iterate = TRUE]
    ELSE e

\* the budget is not enforced
BudgetOverride_off(e, iteration, max_iterations) == e

\* the budget is enforced one iteration too late
BudgetOverride_late(e, iteration, max_iterations) ==
    IF iteration >= max_iterations THEN [e EXCEPT !.should_iterate = FALSE] ELSE e

\* lines 1298-1299: no further iteration once the budget is reached
BudgetOverride(e, iteration, max_iterations) ==
    IF iteration + 1 >= max_iterations THEN [e EXCEPT !.should_iterate = FALSE] ELSE e

\* goal_achieved does not clear should_iterate
ConsistencyOverride_off(e) == e

\* lines 1300-1301
ConsistencyOverride(e) ==
    IF e.goal_achieved THEN [e EXCEPT !.should_iterate = FALSE] ELSE e

\* lines 1278-1301 and 1316-1324: the EvaluationResult built from the parsed answer
EvaluationOf(parsed, success_threshold, iteration, max_iterations) ==
    LET llm == [goal_achieved  |-> DictGet(parsed.goal_achieved, FALSE),
                score          |-> DictGet(parsed.score, 50),
                should_iterate |-> DictGet(parsed.should_iterate, FALSE)]
    IN  ConsistencyOverride(
            BudgetOverride(ThresholdOverride(llm, success_threshold),
                           iteration, max_iterations))

\* a text is truthy when it is present and not the empty string
Truthy(field) == field # None /\ field[1] # <<>>

\* lines 1303-1314: the feedback of the result, on token sequences ("S"
\* whitespace, "J" a word); the LLM's feedback is kept unless it is blank,
\* another iteration follows and there is a rationale or a missing aspect
FeedbackOf(parsed, should_iterate) ==
    LET llm_feedback    == DictGet(parsed.feedback, <<>>)
        missing_aspects == DictGet(parsed.missing_aspects, <<>>)
        with_rationale  == IF Truthy(parsed.rationale)
                           THEN <<(<<"J", "S">> \o parsed.rationale[1])>>
                           ELSE <<>>
        parts           == IF missing_aspects # <<>>
                           THEN Append(with_rationale, <<"J">>)
                           ELSE with_rationale
        joined          == IF Len(parts) = 2 THEN parts[1] \o <<"S">> \o parts[2]
                           ELSE IF Len(parts) = 1 THEN parts[1] ELSE <<>>
    IN  IF /\ Strip(llm_feedback) = <<>>
           /\ should_iterate
           /\ (Truthy(parsed.rationale) \/ missing_aspects # <<>>)
        THEN IF Strip(joined) # <<>> THEN Strip(joined) ELSE <<"J">>
        ELSE llm_feedback

\* lines 1278-1324: the EvaluationResult with its feedback
EvaluationResultOf(parsed, success_threshold, iteration, max_iterations) ==
    LET e == EvaluationOf(parsed, success_threshold, iteration, max_iterations)
    IN  [goal_achieved  |-> e.goal_achieved,
         score          |-> e.score,
         should_iterate |-> e.should_iterate,
         feedback       |-> FeedbackOf(parsed, e.should_iterate)]

(***************************************************************************)
(* The workflow state (AgentVerseState, lines 113-136).                    *)
(***************************************************************************)
NewState(max_iterations, success_threshold) ==
    [iteration         |-> 0,
     max_iterations    |-> max_iterations,
     success_threshold |-> success_threshold,
     recruitment       |-> None,
     decision          |-> None,
     execution         |-> None,
     evaluation        |-> None,
     iteration_history |-> <<>>,
     llm_requests      |-> <<>>,
     final_output      |-> None,
     completed         |-> FALSE]

NoLocals == [used |-> FALSE]

\* the backend at rest (lines 366-369): no request was received
NoBackend ==
    /\ _METRICS_READY = TRUE
    /\ _inflight_count = 0
    /\ INFLIGHT = 0
    /\ REQUESTS_TOTAL = [success |-> 0, error |-> 0]
    /\ handlers = <<>>
    /\ backend_log = <<>>
    /\ cancellations = 0

\* the module loaded with the built-in default URL (line 48), no request posted
NoTransport ==
    /\ DEFAULT_AGENT_B_URL = "http://agent-b:8102/subtask"
    /\ http_posts = <<>>

\* no workflow is running: the variables of the driver at rest
NoWorkflow ==
    /\ state = NewState(0, 0)
    /\ feedback = None
    /\ hz = NoLocals
    /\ vt = NoLocals
    /\ ex = NoLocals
    /\ tasks = <<>>
    /\ fault_budget = 0
    /\ bodies = 0
    /\ progress = <<>>
    /\ callback_faults = 0
    /\ llm_answer = None

(***************************************************************************)
(* Pure functions under check: the input is drawn by Init, one action      *)
(* applies the function.                                                   *)
(***************************************************************************)
UrlEntries == {" ", "u1", " u2 ", "u3"}

DefaultUrls == {"http://agent-b:8102/subtask", ""}

\* the AGENT_B_URLS lists the module can be loaded with
Configurations ==
    {AgentBUrls(entries, d) : entries \in SeqsUpTo(UrlEntries, MaxUrlEntries), d \in DefaultUrls}

ParserInit ==
    /\ NoBackend
    /\ NoTransport
    /\ NoWorkflow
    /\ AGENT_B_URLS = <<"u1">>
    /\ pc = "parse"
    /\ arg \in SeqsUpTo(Tokens, MaxLen)
    /\ ret = None

ParseCall ==
    /\ pc = "parse"
    /\ ret' = Some(_parse_json_response(arg, DefaultValue))
    /\ pc' = "parsed"
    /\ UNCHANGED <<AGENT_B_URLS, transport_vars, backend_vars, progress, callback_faults, llm_answer, state, feedback, hz, vt, ex, tasks, fault_budget, bodies, arg>>

ParserSpec == ParserInit /\ [][ParseCall]_vars

\* the raw expert entries of a recruitment answer: a role, or no role key
RawExperts == {[role |-> Some("planner")], [role |-> None]}

\* the communication_structure field: absent, a valid name in mixed case, an unknown name
StructureFields == {None, Some("Vertical"), Some("ring")}

RecruitInit ==
    /\ NoBackend
    /\ NoWorkflow
    /\ AGENT_B_URLS \in Configurations
    /\ DEFAULT_AGENT_B_URL \in
         {d \in DefaultUrls : \E entries \in SeqsUpTo(UrlEntries, MaxUrlEntries) :
                                 AGENT_B_URLS = AgentBUrls(entries, d)}
    /\ http_posts = <<>>
    /\ pc = "build"
    /\ arg \in [experts : {None} \cup {Some(l) : l \in SeqsUpTo(RawExperts, MaxRawList)},
                communication_structure : StructureFields]
    /\ ret = None

RecruitCall ==
    /\ pc = "build"
    /\ ret' = Some(BuildRecruitment(arg, AGENT_B_URLS))
    /\ pc' = "built"
    /\ UNCHANGED <<AGENT_B_URLS, transport_vars, backend_vars, progress, callback_faults, llm_answer, state, feedback, hz, vt, ex, tasks, fault_budget, bodies, arg>>

RecruitSpec == RecruitInit /\ [][RecruitCall]_vars

\* the values the evaluator LLM may put in its answer
Scores == {-5, 0, 69, 70, 100, 150}

RawThresholds == {-10, 0, 1, 70, 100, 150}

\* the texts of an answer: empty, blank, a word
Texts == {<<>>, <<"S">>, <<"J">>}

ParsedEvaluations ==
    [goal_achieved   : {None, Some(TRUE), Some(FALSE)},
     score           : {None} \cup {Some(x) : x \in Scores},
     should_iterate  : {None, Some(TRUE), Some(FALSE)},
     feedback        : {None} \cup {Some(t) : t \in Texts},
     rationale       : {None, Some(<<>>), Some(<<"J">>)},
     missing_aspects : {None, Some(<<>>), Some(<<"a">>)}]

\* evaluate_results is called inside the loop: iteration < max_iterations
EvalInit ==
    /\ NoBackend
    /\ NoTransport
    /\ AGENT_B_URLS = <<"u1">>
    /\ feedback = None /\ hz = NoLocals /\ vt = NoLocals /\ ex = NoLocals
    /\ tasks = <<>> /\ fault_budget = 0 /\ bodies = 0
    /\ progress = <<>> /\ callback_faults = 0 /\ llm_answer = None
    /\ \E mi \in 1..MaxIterations, it \in 0..(MaxIterations - 1), th \in RawThresholds :
         /\ it < mi
         /\ state = [NewState(mi, ClampThreshold(th)) EXCEPT !.iteration = it]
    /\ pc = "evaluate"
    /\ arg \in ParsedEvaluations
    /\ ret = None

EvalCall ==
    /\ pc = "evaluate"
    /\ ret' = Some(EvaluationResultOf(arg, state.success_threshold, state.iteration,
                                      state.max_iterations))
    /\ pc' = "evaluated"
    /\ UNCHANGED <<AGENT_B_URLS, transport_vars, backend_vars, progress, callback_faults, llm_answer, state, feedback, hz, vt, ex, tasks, fault_budget, bodies, arg>>

EvalSpec == EvalInit /\ [][EvalCall]_vars

(***************************************************************************)
(* The workflow: run_workflow and its stages, one action per step of the   *)
(* driver thread and of the pool threads.                                  *)
(***************************************************************************)
\* largest max_iterations the workflow model is started with
MaxWorkflowIterations == 2

\* longest expert list the recruiter LLM answers with in the workflow model
MaxExperts == 2

\* worker-call failures the environment injects in one workflow run
MaxFaults == 1

\* max_rounds of _horizontal_discussion (line 641)
max_rounds == 3

\* max_iterations of _vertical_decision (line 756)
max_vertical_iterations == 3

\* the endpoint lists the workflow model is loaded with
WorkflowConfigurations == {AgentBUrls(<<"u1", " u2 ">>, "http://agent-b:8102/subtask")}

\* the success_threshold arguments and the answers of the LLM in the workflow model
WorkflowThresholds == {-10, 70}

\* the recruiter answers with no expert list, or with a prefix of this list
AnsweredExpert(i) == IF i = 2 THEN [role |-> Some("planner")] ELSE [role |-> None]

RecruitAnswers ==
    [experts : {None} \cup {Some([i \in 1..n |-> AnsweredExpert(i)]) : n \in 0..MaxExperts},
     communication_structure : {None, Some("Vertical")}]

EvaluationAnswers ==
    [goal_achieved  : {Some(TRUE), Some(FALSE)},
     score          : {None, Some(90)},
     should_iterate : {Some(TRUE), Some(FALSE)}]

\* _record_llm_request (lines 334-362): the entry for position seq
Entry(seq, stage) == [seq |-> seq, iteration |-> state.iteration, stage |-> stage]

\* _record_llm_request called on the driver thread while no pool thread runs
Recorded(stage) == Append(state.llm_requests, Entry(Len(state.llm_requests) + 1, stage))

\* a progress event: its type, the "stage" of its data, the value of
\* state.iteration when it is sent, and a count (the round, the solver
\* iteration or the number of completed subtasks)
Event(event_type, stage, n) ==
    [event |-> event_type, stage |-> stage, iteration |-> state.iteration, n |-> n]

\* the stage_complete events are not sent
_send_progress_no_completions(received, events) ==
    LET Kept(e) == e.event # "llm_request" /\ e.event # "stage_complete"
    IN  received \o SelectSeq(events, Kept)

\* _send_progress (lines 302-308) with a callback installed that returns: the
\* callback receives the events in the order of the calls.  `progress` keeps
\* the events of the stages and iterations; the llm_request events, whose
\* payload is the llm_requests entry itself, are not kept in it.
_send_progress(received, events) ==
    LET Kept(e) == e.event # "llm_request"
    IN  received \o SelectSeq(events, Kept)

\* line 305: the call of the callback returns (FALSE) or raises (TRUE)
CallbackRaises == IF callback_faults > 0 THEN BOOLEAN ELSE {FALSE}

\* run_workflow, lines 1375-1389
WorkflowInit ==
    /\ NoBackend
    /\ NoTransport
    /\ AGENT_B_URLS \in WorkflowConfigurations
    /\ \E mi \in -1..MaxWorkflowIterations, th \in WorkflowThresholds :
         state = NewState(mi, ClampThreshold(th))
    /\ pc = "loop"
    /\ feedback = None
    /\ hz = NoLocals
    /\ vt = NoLocals
    /\ ex = NoLocals
    /\ tasks = <<>>
    /\ fault_budget = MaxFaults
    /\ bodies = 0
    /\ progress = <<>>
    /\ callback_faults = 0
    /\ llm_answer = None
    /\ arg = None
    /\ ret = None

\* line 1391: the loop test
LoopTest ==
    /\ pc = "loop"
    /\ IF state.iteration < state.max_iterations
       THEN /\ pc' = "recruit"
            /\ bodies' = bodies + 1
            /\ progress' = _send_progress(progress, <<Event("iteration_start", "", 0)>>)
       ELSE /\ pc' = "synthesis"
            /\ UNCHANGED <<bodies, progress>>
    /\ UNCHANGED <<AGENT_B_URLS, transport_vars, backend_vars, callback_faults, llm_answer, state, feedback, hz, vt, ex, tasks, fault_budget, arg, ret>>

\* an orchestrator LLM call raises (_call_llm, lines 179-185: transport error or
\* raise_for_status) or its answer is JSON that is no object (parsed.get raises):
\* the exception leaves run_workflow
Raise ==
    /\ pc' = "raised"
    /\ hz' = NoLocals
    /\ vt' = NoLocals
    /\ ex' = NoLocals

\* stage 1, recruit_experts (lines 407-584), called at line 1402
Recruit ==
    /\ pc = "recruit"
    /\ \/ /\ Raise
          /\ UNCHANGED <<state, llm_answer>>
          /\ progress' = _send_progress(progress, <<Event("stage_start", "recruitment", 0)>>)
       \/ /\ Raise
          /\ state' = [state EXCEPT !.llm_requests = Recorded("recruitment")]
          /\ progress' = _send_progress(progress, <<Event("stage_start", "recruitment", 0),
                                                    Event("llm_request", "recruitment", 0)>>)
          /\ UNCHANGED llm_answer
       \/ \E parsed \in RecruitAnswers :
             /\ state' = [state EXCEPT
                    !.llm_requests = Recorded("recruitment"),
                    !.recruitment  = Some(BuildRecruitment(parsed, AGENT_B_URLS))]
             /\ progress' = _send_progress(progress, <<Event("stage_start", "recruitment", 0),
                                                       Event("llm_request", "recruitment", 0),
                                                       Event("stage_complete", "recruitment", 0)>>)
             /\ llm_answer' = None
             /\ pc' = "decide"
             /\ UNCHANGED <<hz, vt, ex>>
    /\ UNCHANGED <<AGENT_B_URLS, transport_vars, backend_vars, callback_faults, feedback, tasks, fault_budget, bodies, arg, ret>>

\* the experts of the current recruitment
Experts == state.recruitment[1].experts

\* stage 2, collaborative_decision (lines 590-635): dispatch on the topology
Decide ==
    /\ pc = "decide"
    /\ progress' = _send_progress(progress, <<Event("stage_start", "decision", 0)>>)
    /\ IF state.recruitment[1].communication_structure = "horizontal"
       THEN /\ hz' = [round_num |-> 1, next |-> 1, round_responses |-> <<>>,
                      discussion_rounds |-> <<>>, consensus_reached |-> FALSE,
                      discussion_history |-> <<>>, calls |-> <<>>]
            /\ pc' = "h_call"
            /\ UNCHANGED vt
       ELSE /\ pc' = "v_start"
            /\ UNCHANGED <<hz, vt>>
    /\ UNCHANGED <<AGENT_B_URLS, transport_vars, backend_vars, callback_faults, llm_answer, state, feedback, ex, tasks, fault_budget, bodies, arg, ret>>

\* _call_agent_b (lines 199-300) seen by its caller: the call returns a
\* response or raises.  A blank target URL raises before any I/O (lines
\* 216-220); otherwise a failure is the environment's choice.  `sentinels` are the cases
\* the caller tells apart in a response: with or without the sentinel it looks
\* for in a deliberation, a single case in the execution stage.  The text of
\* an exception quotes the URL and the transport's message (lines 250-255),
\* so the caller's "[... error: {exc}]" string may hold the sentinel as well.
WorkerOutcomes(endpoint, budget, sentinels) ==
    IF IsBlank(TargetUrl(<<endpoint>>, DEFAULT_AGENT_B_URL))
    THEN {[ok |-> FALSE, sentinel |-> FALSE, fault |-> 0]}
    ELSE {[ok |-> TRUE, sentinel |-> b, fault |-> 0] : b \in sentinels}
         \cup (IF budget > 0
               THEN {[ok |-> FALSE, sentinel |-> b, fault |-> 1] : b \in sentinels}
               ELSE {})

\* lines 709-713: the summary of a round, one labelled line per response in
\* the order of round_responses; the label is the role of the expert
RoundSummary(experts, round_num, round_responses) ==
    [round |-> round_num,
     lines |-> [i \in 1..Len(round_responses) |->
                  [label     |-> experts[round_responses[i].index + 1].role,
                   ok        |-> round_responses[i].ok,
                   consensus |-> round_responses[i].consensus]]]

\* the responses given so far in the current round are shown as well
PromptHistory_with_current_round(experts, discussion_history, round_num, round_responses) ==
    IF round_responses # <<>>
    THEN Some(Append(discussion_history,
                     RoundSummary(experts, round_num, round_responses)))
    ELSE IF discussion_history # <<>> THEN Some(discussion_history) ELSE None

\* lines 653-659: the discussion_history argument of the prompt; None stands
\* for the placeholder "(No discussion yet)" of an empty history
PromptHistory(experts, discussion_history, round_num, round_responses) ==
    IF discussion_history # <<>> THEN Some(discussion_history) ELSE None

\* lines 652-707: the call of one expert in the current round
HorizontalCall ==
    /\ pc = "h_call"
    /\ \E out \in WorkerOutcomes(Experts[hz.next].endpoint, fault_budget, BOOLEAN),
          raises \in CallbackRaises :
         /\ fault_budget' = fault_budget - out.fault
         /\ state' = IF out.ok
                     THEN [state EXCEPT !.llm_requests = Recorded("decision")]
                     ELSE state
         \* the llm_request event is sent inside the try block (line 680): an
         \* exception of the callback turns the response into the error marker
         /\ IF out.ok /\ raises
            THEN callback_faults' = callback_faults - 1 /\ UNCHANGED progress
            ELSE /\ UNCHANGED callback_faults
                 /\ progress' = IF out.ok
                                 THEN _send_progress(progress, <<Event("llm_request", "decision", hz.round_num)>>)
                                 ELSE progress
         /\ LET response == [index     |-> Experts[hz.next].index,
                             ok        |-> out.ok /\ ~raises,
                             consensus |-> out.sentinel /\ ~(out.ok /\ raises)]
                call     == [round_num |-> hz.round_num,
                             expert    |-> hz.next,
                             discussion_history |->
                                 PromptHistory(Experts, hz.discussion_history,
                                               hz.round_num, hz.round_responses)]
            IN  hz' = [hz EXCEPT !.round_responses = Append(@, response),
                                 !.calls = Append(@, call),
                                 !.next = @ + 1]
         /\ pc' = IF hz.next = Len(Experts) THEN "h_round_end" ELSE "h_call"
    /\ UNCHANGED <<AGENT_B_URLS, transport_vars, backend_vars, llm_answer, feedback, vt, ex, tasks, bodies, arg, ret>>

\* one response with the sentinel is enough for the round
AllConsensus_some(round_responses) ==
    \E i \in 1..Len(round_responses) : round_responses[i].consensus

\* lines 650, 706-707: all_consensus of a finished round
AllConsensus(round_responses) ==
    \A i \in 1..Len(round_responses) : round_responses[i].consensus

\* the loop ignores the consensus and always runs to the round cap
RoundsOver_ignores_consensus(all_consensus, round_num) == round_num = max_rounds

\* lines 648 and 736-738: the loop over the rounds ends
RoundsOver(all_consensus, round_num) == all_consensus \/ round_num = max_rounds

\* lines 709-738: the end of a round
HorizontalRoundEnd ==
    /\ pc = "h_round_end"
    /\ progress' = _send_progress(progress, <<Event("discussion_round", "decision", hz.round_num)>>)
    /\ LET all_consensus == AllConsensus(hz.round_responses)
           rounds == Append(hz.discussion_rounds,
                            [round |-> hz.round_num, responses |-> hz.round_responses])
           history == Append(hz.discussion_history,
                             RoundSummary(Experts, hz.round_num, hz.round_responses))
       IN  IF RoundsOver(all_consensus, hz.round_num)
           THEN /\ hz' = [hz EXCEPT !.discussion_rounds = rounds,
                                    !.discussion_history = history,
                                    !.consensus_reached = all_consensus]
                /\ pc' = "h_synth"
           ELSE /\ hz' = [hz EXCEPT !.discussion_rounds = rounds,
                                    !.discussion_history = history,
                                    !.round_num = @ + 1,
                                    !.next = 1,
                                    !.round_responses = <<>>]
                /\ pc' = "h_call"
    /\ UNCHANGED <<AGENT_B_URLS, transport_vars, backend_vars, callback_faults, llm_answer, state, feedback, vt, ex, tasks, fault_budget, bodies, arg, ret>>

\* lines 740-750 with _synthesize_discussion (lines 963-995), and the return
\* to run_workflow (line 1405)
HorizontalSynthesize ==
    /\ pc = "h_synth"
    /\ \/ /\ Raise
          /\ UNCHANGED <<state, progress>>
       \/ /\ state' = [state EXCEPT
                 !.llm_requests = Recorded("decision"),
                 !.decision = Some([final_decision    |-> <<"synthesis", 0>>,
                                    rounds            |-> Len(hz.discussion_rounds),
                                    consensus_reached |-> hz.consensus_reached,
                                    structure_used    |-> "horizontal"])]
          /\ progress' = _send_progress(progress, <<Event("llm_request", "decision", 0),
                                                    Event("stage_complete", "decision", 0)>>)
          /\ pc' = "execute"
          /\ hz' = NoLocals
          /\ UNCHANGED <<vt, ex>>
    /\ UNCHANGED <<AGENT_B_URLS, transport_vars, backend_vars, callback_faults, llm_answer, feedback, tasks, fault_budget, bodies, arg, ret>>

(***************************************************************************)
(* Pool threads: one task per reviewer (_reviewer_task, lines 852-908) or  *)
(* per expert (execute_subtask, lines 1041-1127).                          *)
(***************************************************************************)
NewTask(kind, expert) ==
    [kind |-> kind, expert |-> expert, pc |-> "call", seq |-> 0,
     ok |-> FALSE, sentinel |-> FALSE, collected |-> FALSE, seen |-> None]

AllDone == \A i \in 1..Len(tasks) : tasks[i].pc = "done"

\* the exception of a failing call is not caught: the task ends without a result
TaskAfterCall_propagates(ok) == IF ok THEN "seq" ELSE "failed"

\* lines 899-900 and 1118-1125: `except Exception` turns a failing call into
\* the task's error result; a successful call goes on to record the request
TaskAfterCall(ok) == IF ok THEN "seq" ELSE "done"

\* the worker call of a task: on success the task goes on to record the
\* request, on an exception it returns its error result (lines 899-900, 1118-1125)
TaskCall(i) ==
    /\ i \in 1..Len(tasks)
    /\ tasks[i].pc = "call"
    /\ \E out \in WorkerOutcomes(Experts[tasks[i].expert].endpoint, fault_budget,
                                  IF tasks[i].kind = "reviewer" THEN BOOLEAN ELSE {FALSE}) :
         /\ fault_budget' = fault_budget - out.fault
         \* a reviewer task reads the enclosing `proposal` for its prompt (line 862)
         /\ tasks' = [tasks EXCEPT ![i].ok = out.ok,
                                   ![i].sentinel = out.sentinel,
                                   ![i].seen = IF tasks[i].kind = "reviewer"
                                               THEN Some(vt.proposal) ELSE None,
                                   ![i].pc = TaskAfterCall(out.ok)]
    /\ UNCHANGED <<AGENT_B_URLS, transport_vars, backend_vars, progress, callback_faults, llm_answer, state, pc, feedback, hz, vt, ex, bodies, arg, ret>>

\* _record_llm_request on a pool thread, line 334: seq = len(llm_requests) + 1
RecordSeq(i) ==
    /\ i \in 1..Len(tasks)
    /\ tasks[i].pc = "seq"
    /\ tasks' = [tasks EXCEPT ![i].seq = Len(state.llm_requests) + 1,
                              ![i].pc = "append"]
    /\ UNCHANGED <<AGENT_B_URLS, transport_vars, backend_vars, progress, callback_faults, llm_answer, state, pc, feedback, hz, vt, ex, fault_budget, bodies, arg, ret>>

\* _record_llm_request on a pool thread, lines 338-362: the entry is appended;
\* the task then returns its result
RecordAppend(i) ==
    /\ i \in 1..Len(tasks)
    /\ tasks[i].pc = "append"
    /\ state' = [state EXCEPT !.llm_requests =
                    Append(@, Entry(tasks[i].seq,
                                    IF tasks[i].kind = "reviewer" THEN "decision" ELSE "execution"))]
    \* the llm_request event is sent inside the task's try block (lines 883,
    \* 1096): an exception of the callback turns the result into the error result
    /\ \E raises \in CallbackRaises :
         IF raises
         THEN /\ callback_faults' = callback_faults - 1
              /\ UNCHANGED progress
              /\ tasks' = [tasks EXCEPT ![i].pc = "done", ![i].ok = FALSE, ![i].sentinel = FALSE]
         ELSE /\ UNCHANGED callback_faults
              /\ progress' = _send_progress(progress,
                                <<Event("llm_request",
                                        IF tasks[i].kind = "reviewer" THEN "decision" ELSE "execution", 0)>>)
              /\ tasks' = [tasks EXCEPT ![i].pc = "done"]
    /\ UNCHANGED <<AGENT_B_URLS, transport_vars, backend_vars, llm_answer, pc, feedback, hz, vt, ex, fault_budget, bodies, arg, ret>>

TaskStep == \E i \in 1..MAX_PARALLEL_WORKERS : TaskCall(i) \/ RecordSeq(i) \/ RecordAppend(i)

(***************************************************************************)
(* _vertical_decision (lines 752-961).                                     *)
(***************************************************************************)
Positions(experts) == 1..Len(experts)

\* lines 766-776: the position of the solver in the expert list
SolverOf(experts) ==
    IF \E i \in Positions(experts) : experts[i].role = "planner"
    THEN CHOOSE i \in Positions(experts) :
            /\ experts[i].role = "planner"
            /\ \A j \in 1..(i - 1) : experts[j].role # "planner"
    ELSE 1

\* every planner is left out of the reviewers, not only the solver
ReviewersOf_without_planners(experts) ==
    LET P(i) == i # SolverOf(experts) /\ experts[i].role # "planner"
    IN  SelectSeq([i \in Positions(experts) |-> i], P)

\* lines 773 and 776: the positions of the reviewers, in recruitment order
ReviewersOf(experts) ==
    LET solver == SolverOf(experts)
        P(i)   == i # solver
    IN  SelectSeq([i \in Positions(experts) |-> i], P)

\* the critiques of the reviewers that failed are left out
Critiques_without_failures(responses) ==
    LET Answered(r) == r.ok
        kept        == SelectSeq(responses, Answered)
    IN  [i \in 1..Len(kept) |-> <<kept[i].reviewer, kept[i].ok, kept[i].approved>>]

\* lines 922-925: one line "reviewer: critique" per response, in the order of
\* reviewer_responses
Critiques(responses) ==
    [i \in 1..Len(responses) |->
        <<responses[i].reviewer, responses[i].ok, responses[i].approved>>]

\* lines 793-805: what the solver prompt holds of the previous iteration; an
\* empty proposal or critique text is left out
SolverInput(proposal, critiques) ==
    [previous_proposal |-> IF proposal[1] # "" THEN Some(proposal) ELSE None,
     critiques         |-> IF critiques # <<>> THEN Some(critiques) ELSE None]

\* lines 759-789
VerticalStart ==
    /\ pc = "v_start"
    /\ vt' = [solver |-> SolverOf(Experts), reviewers |-> ReviewersOf(Experts),
              iteration |-> 1, proposal |-> <<"", 0>>, reviewer_responses |-> <<>>,
              all_approved |-> TRUE, discussion_rounds |-> <<>>,
              critiques |-> <<>>, solver_input |-> None]
    /\ pc' = "v_solver"
    /\ UNCHANGED <<AGENT_B_URLS, transport_vars, backend_vars, progress, callback_faults, llm_answer, state, feedback, hz, ex, tasks, fault_budget, bodies, arg, ret>>

\* an iteration is not approved until a reviewer approves it
DefaultApproval_false == FALSE

\* line 847: all_approved = True before the reviewers are asked
DefaultApproval == TRUE

\* lines 792-850 and 910-916: the solver proposes, then the reviewers are
\* submitted to the pool
VerticalSolver ==
    /\ pc = "v_solver"
    /\ \E out \in WorkerOutcomes(Experts[vt.solver].endpoint, fault_budget, {FALSE}),
          raises \in CallbackRaises :
         /\ fault_budget' = fault_budget - out.fault
         \* the llm_request event is sent inside the try block (line 826)
         /\ IF out.ok /\ raises
            THEN callback_faults' = callback_faults - 1 /\ UNCHANGED progress
            ELSE /\ UNCHANGED callback_faults
                 /\ progress' = IF out.ok
                                 THEN _send_progress(progress, <<Event("llm_request", "decision", vt.iteration)>>)
                                 ELSE progress
         /\ state' = IF out.ok
                     THEN [state EXCEPT !.llm_requests = Recorded("decision")]
                     ELSE state
         /\ vt' = [vt EXCEPT
                !.proposal = IF out.ok /\ ~raises THEN <<"proposal", vt.iteration>>
                             ELSE <<"[Solver error]", vt.iteration>>,
                !.reviewer_responses = <<>>,
                !.all_approved = DefaultApproval,
                !.solver_input = Some(SolverInput(vt.proposal, vt.critiques))]
    /\ IF vt.reviewers # <<>>
       THEN /\ tasks' = [i \in 1..Len(vt.reviewers) |-> NewTask("reviewer", vt.reviewers[i])]
            /\ pc' = "v_join"
       ELSE /\ pc' = "v_iter_end"
            /\ UNCHANGED tasks
    /\ UNCHANGED <<AGENT_B_URLS, transport_vars, backend_vars, llm_answer, feedback, hz, ex, bodies, arg, ret>>

\* lines 904-908: the result of a reviewer task
ReviewerResponse(task) ==
    [reviewer |-> task.expert, ok |-> task.ok, approved |-> task.sentinel]

\* lines 917-920: the futures are awaited in submission order
VerticalJoin ==
    /\ pc = "v_join"
    /\ AllDone
    /\ LET responses == [i \in 1..Len(tasks) |-> ReviewerResponse(tasks[i])]
       IN  vt' = [vt EXCEPT
                !.reviewer_responses = responses,
                !.all_approved = \A i \in 1..Len(responses) : responses[i].approved]
    /\ tasks' = <<>>
    /\ pc' = "v_iter_end"
    /\ UNCHANGED <<AGENT_B_URLS, transport_vars, backend_vars, progress, callback_faults, llm_answer, state, feedback, hz, ex, fault_budget, bodies, arg, ret>>

\* the loop ignores the approval and always runs to the iteration cap
IterationsOver_ignores_approval(all_approved, iteration) ==
    iteration = max_vertical_iterations

\* lines 791 and 951-952: the loop over the solver iterations ends
IterationsOver(all_approved, iteration) ==
    all_approved \/ iteration = max_vertical_iterations

\* lines 922-961: the round is recorded; the loop ends on approval or after the
\* last iteration, and the DecisionResult returns to run_workflow (line 1405)
VerticalIterationEnd ==
    /\ pc = "v_iter_end"
    /\ LET rounds == Append(vt.discussion_rounds,
                            [iteration          |-> vt.iteration,
                             proposal           |-> vt.proposal,
                             reviewer_responses |-> vt.reviewer_responses,
                             all_approved       |-> vt.all_approved])
       IN  IF IterationsOver(vt.all_approved, vt.iteration)
           THEN /\ state' = [state EXCEPT !.decision =
                      Some([final_decision    |-> vt.proposal,
                            rounds            |-> Len(rounds),
                            consensus_reached |-> IF vt.reviewers # <<>> THEN vt.all_approved ELSE TRUE,
                            structure_used    |-> "vertical"])]
                /\ vt' = NoLocals
                /\ progress' = _send_progress(progress, <<Event("vertical_iteration", "decision", vt.iteration),
                                                          Event("stage_complete", "decision", 0)>>)
                /\ pc' = "execute"
           ELSE /\ vt' = [vt EXCEPT !.discussion_rounds = rounds, !.iteration = @ + 1,
                                    !.critiques = Critiques(vt.reviewer_responses)]
                /\ progress' = _send_progress(progress, <<Event("vertical_iteration", "decision", vt.iteration)>>)
                /\ pc' = "v_solver"
                /\ UNCHANGED state
    /\ UNCHANGED <<AGENT_B_URLS, transport_vars, backend_vars, callback_faults, llm_answer, feedback, hz, ex, tasks, fault_budget, bodies, arg, ret>>

(***************************************************************************)
(* Stage 3, execute_actions (lines 1001-1182).                             *)
(***************************************************************************)
\* lines 1032-1138: one subtask per expert is submitted to the pool
ExecuteStart ==
    /\ pc = "execute"
    /\ progress' = _send_progress(progress, <<Event("stage_start", "execution", 0)>>)
    /\ ex' = [outputs |-> <<>>, success_count |-> 0, failure_count |-> 0]
    /\ tasks' = [i \in 1..Len(Experts) |-> NewTask("subtask", i)]
    /\ pc' = "x_collect"
    /\ UNCHANGED <<AGENT_B_URLS, transport_vars, backend_vars, callback_faults, llm_answer, state, feedback, hz, vt, fault_budget, bodies, arg, ret>>

\* a failed result is appended but not counted
Collected_drops_failures(locals, result) ==
    [locals EXCEPT
        !.outputs = Append(@, result),
        !.success_count = IF result.success THEN @ + 1 ELSE @]

\* lines 1141-1146: the result is appended and counted
Collected(locals, result) ==
    [locals EXCEPT
        !.outputs = Append(@, result),
        !.success_count = IF result.success THEN @ + 1 ELSE @,
        !.failure_count = IF result.success THEN @ ELSE @ + 1]

\* lines 1140-1157: as_completed hands over a finished future
ExecuteCollect ==
    /\ pc = "x_collect"
    /\ \E i \in 1..Len(tasks) :
         /\ tasks[i].pc = "done"
         /\ ~tasks[i].collected
         /\ tasks' = [tasks EXCEPT ![i].collected = TRUE]
         /\ LET result == [index   |-> Experts[tasks[i].expert].index,
                           success |-> tasks[i].ok]
            IN  ex' = Collected(ex, result)
    /\ progress' = _send_progress(progress, <<Event("execution_result", "execution", Len(ex.outputs) + 1)>>)
    /\ UNCHANGED <<AGENT_B_URLS, transport_vars, backend_vars, callback_faults, llm_answer, state, pc, feedback, hz, vt, fault_budget, bodies, arg, ret>>

\* the loop over the futures ends after the first one that completed
Joined_first(ts) == \E i \in 1..Len(ts) : ts[i].collected

\* lines 1129 and 1140: as_completed is exhausted and the pool is shut down
\* when every submitted future has completed and was handed over
Joined(ts) == \A i \in 1..Len(ts) : ts[i].collected

\* lines 1159-1182: every future was handed over; the ExecutionResult returns
\* to run_workflow (line 1408)
ExecuteEnd ==
    /\ pc = "x_collect"
    /\ Joined(tasks)
    /\ state' = [state EXCEPT !.execution =
                    Some([outputs       |-> ex.outputs,
                          success_count |-> ex.success_count,
                          failure_count |-> ex.failure_count])]
    /\ tasks' = <<>>
    /\ ex' = NoLocals
    /\ progress' = _send_progress(progress, <<Event("stage_complete", "execution", 0)>>)
    /\ pc' = "evaluate"
    /\ UNCHANGED <<AGENT_B_URLS, transport_vars, backend_vars, callback_faults, llm_answer, feedback, hz, vt, fault_budget, bodies, arg, ret>>

(***************************************************************************)
(* Stage 4 and the rest of the loop body.                                  *)
(***************************************************************************)
\* evaluate_results (lines 1209-1351), called at line 1413
Evaluate ==
    /\ pc = "evaluate"
    /\ \/ /\ Raise
          /\ UNCHANGED <<state, llm_answer>>
          /\ progress' = _send_progress(progress, <<Event("stage_start", "evaluation", 0)>>)
       \/ /\ Raise
          /\ state' = [state EXCEPT !.llm_requests = Recorded("evaluation")]
          /\ progress' = _send_progress(progress, <<Event("stage_start", "evaluation", 0),
                                                    Event("llm_request", "evaluation", 0)>>)
          /\ UNCHANGED llm_answer
       \/ \E parsed \in EvaluationAnswers :
             /\ state' = [state EXCEPT
                    !.llm_requests = Recorded("evaluation"),
                    !.evaluation = Some(EvaluationOf(parsed, state.success_threshold,
                                                     state.iteration, state.max_iterations))]
             /\ llm_answer' = Some(parsed)
             /\ progress' = _send_progress(progress, <<Event("stage_start", "evaluation", 0),
                                                       Event("llm_request", "evaluation", 0),
                                                       Event("stage_complete", "evaluation", 0)>>)
             /\ pc' = "record"
             /\ UNCHANGED <<hz, vt, ex>>
    /\ UNCHANGED <<AGENT_B_URLS, transport_vars, backend_vars, callback_faults, feedback, tasks, fault_budget, bodies, arg, ret>>

\* lines 1417-1439: the summary of the iteration
IterationEntry ==
    [iteration     |-> state.iteration,
     failures      |-> state.execution[1].failure_count,
     goal_achieved |-> state.evaluation[1].goal_achieved,
     score         |-> state.evaluation[1].score]

\* the iteration counter is left as it is
NextIteration_stuck(iteration) == iteration

\* the iteration counter advances by two
NextIteration_skips(iteration) == iteration + 2

\* line 1452: state.iteration += 1
NextIteration(iteration) == iteration + 1

\* lines 1440-1452: the summary is appended; the loop ends or goes on
RecordIteration ==
    /\ pc = "record"
    /\ progress' = _send_progress(progress, <<Event("iteration_complete", "", 0)>>)
    /\ IF ~state.evaluation[1].should_iterate
       THEN /\ state' = [state EXCEPT !.iteration_history = Append(@, IterationEntry)]
            /\ pc' = "synthesis"
            /\ UNCHANGED feedback
       ELSE /\ state' = [state EXCEPT !.iteration_history = Append(@, IterationEntry),
                                      !.iteration = NextIteration(@)]
            /\ feedback' = Some(state.iteration)
            /\ pc' = "loop"
    /\ UNCHANGED <<AGENT_B_URLS, transport_vars, backend_vars, callback_faults, llm_answer, hz, vt, ex, tasks, fault_budget, bodies, arg, ret>>

\* line 1462 with _generate_final_output (lines 1485-1538)
\* the result of _generate_final_output is discarded
WithFinalOutput_unassigned(s, text) == s

\* line 1462: state.final_output = self._generate_final_output(state)
WithFinalOutput(s, text) == [s EXCEPT !.final_output = Some(text)]

\* the synthesis prompt is sent whether or not a stage has executed
NoExecution_never(s) == FALSE

\* line 1487: `if not state.execution`
NoExecution(s) == s.execution = None

Synthesize ==
    /\ pc = "synthesis"
    /\ IF NoExecution(state)
       THEN /\ state' = WithFinalOutput(state, "No execution results available.")
            /\ progress' = _send_progress(progress, <<Event("stage_start", "synthesis", 0)>>)
            /\ pc' = "complete"
            /\ UNCHANGED <<hz, vt, ex>>
       ELSE \/ /\ Raise
               /\ UNCHANGED state
               /\ progress' = _send_progress(progress, <<Event("stage_start", "synthesis", 0)>>)
            \/ /\ state' = WithFinalOutput([state EXCEPT !.llm_requests = Recorded("synthesis")],
                                             "final")
               /\ progress' = _send_progress(progress, <<Event("stage_start", "synthesis", 0),
                                                         Event("llm_request", "synthesis", 0)>>)
               /\ pc' = "complete"
               /\ UNCHANGED <<hz, vt, ex>>
    /\ UNCHANGED <<AGENT_B_URLS, transport_vars, backend_vars, callback_faults, llm_answer, feedback, tasks, fault_budget, bodies, arg, ret>>

\* line 1463
Complete ==
    /\ pc = "complete"
    /\ state' = [state EXCEPT !.completed = TRUE]
    /\ progress' = _send_progress(progress, <<Event("stage_complete", "synthesis", 0)>>)
    /\ pc' = "done"
    /\ UNCHANGED <<AGENT_B_URLS, transport_vars, backend_vars, callback_faults, llm_answer, feedback, hz, vt, ex, tasks, fault_budget, bodies, arg, ret>>

\* _state_to_response (lines 1540-1598): the fields of the response the
\* properties read
_state_to_response(s) ==
    [completed    |-> s.completed,
     iterations   |-> s.iteration + 1,
     final_output |-> s.final_output]

Next ==
    \/ LoopTest
    \/ Recruit
    \/ Decide
    \/ HorizontalCall
    \/ HorizontalRoundEnd
    \/ HorizontalSynthesize
    \/ VerticalStart
    \/ VerticalSolver
    \/ TaskStep
    \/ VerticalJoin
    \/ VerticalIterationEnd
    \/ ExecuteStart
    \/ ExecuteCollect
    \/ ExecuteEnd
    \/ Evaluate
    \/ RecordIteration
    \/ Synthesize
    \/ Complete

Spec == WorkflowInit /\ [][Next]_vars

(***************************************************************************)
(* The workflow with a progress callback that raises.                      *)
(***************************************************************************)
\* times the progress callback raises in one workflow
MaxCallbackFaults == 1

\* run_workflow, lines 1375-1389, with workers and LLM reachable and a
\* callback that raises on some events
CallbackInit ==
    /\ NoBackend
    /\ NoTransport
    /\ AGENT_B_URLS \in WorkflowConfigurations
    /\ \E mi \in 1..MaxWorkflowIterations :
         state = NewState(mi, ClampThreshold(70))
    /\ pc = "loop"
    /\ feedback = None
    /\ hz = NoLocals
    /\ vt = NoLocals
    /\ ex = NoLocals
    /\ tasks = <<>>
    /\ fault_budget = 0
    /\ bodies = 0
    /\ progress = <<>>
    /\ callback_faults = MaxCallbackFaults
    /\ llm_answer = None
    /\ arg = None
    /\ ret = None

\* the driver is about to send an event outside every try block: each stage
\* start and completion, discussion_round, vertical_iteration,
\* execution_result, iteration_start, iteration_complete and the llm_request
\* events of the orchestrator's own LLM calls
DriverSends ==
    \/ pc \in {"recruit", "decide", "h_round_end", "h_synth", "v_iter_end", "execute",
               "evaluate", "record", "synthesis", "complete"}
    \/ pc = "loop" /\ state.iteration < state.max_iterations
    \/ /\ pc = "x_collect"
       /\ \/ \E i \in 1..Len(tasks) : tasks[i].pc = "done" /\ ~tasks[i].collected
          \/ \A i \in 1..Len(tasks) : tasks[i].collected

\* lines 304-308 have no try block: the exception of the callback leaves the
\* stage and run_workflow (for the event of line 1466 after completed is set)
CallbackRaise ==
    /\ callback_faults > 0
    /\ DriverSends
    /\ callback_faults' = callback_faults - 1
    /\ pc' = "callback_raised"
    /\ state' = IF pc = "complete" THEN [state EXCEPT !.completed = TRUE] ELSE state
    /\ UNCHANGED <<AGENT_B_URLS, transport_vars, backend_vars, progress, llm_answer, feedback, hz, vt, ex, tasks,
                   fault_budget, bodies, arg, ret>>

CallbackNext ==
    \/ Next
    \/ CallbackRaise

CallbackSpec == CallbackInit /\ [][CallbackNext]_vars

\* the driver thread and the pool threads keep being scheduled
FairSpec == Spec /\ WF_vars(Next)

(***************************************************************************)
(* The stages alone, entered with larger expert lists and fault budgets.   *)
(***************************************************************************)
\* longest expert list at the entry of the deliberation checked alone
DeliberationExperts == 2

\* worker-call failures the environment injects in the deliberation
DeliberationFaults == 1

\* longest expert list at the entry of the execution checked alone
ExecutionExperts == 3

\* worker-call failures the environment injects in the execution
ExecutionFaults == 2

StageRecruitAnswers(n) ==
    [experts : {Some(l) : l \in SeqsUpTo(RawExperts, n)},
     communication_structure : {None, Some("Vertical")}]

\* the log after the recruitment call and n deliberation records
LogAfter(n) ==
    [i \in 1..(n + 1) |->
        [seq |-> i, iteration |-> 0, stage |-> IF i = 1 THEN "recruitment" ELSE "decision"]]

\* run_workflow at line 1405 of the first iteration, after recruit_experts
DeliberationInit ==
    /\ NoBackend
    /\ NoTransport
    /\ AGENT_B_URLS \in WorkflowConfigurations
    /\ \E parsed \in StageRecruitAnswers(DeliberationExperts) :
         state = [NewState(1, 70) EXCEPT
                    !.recruitment = Some(BuildRecruitment(parsed, AGENT_B_URLS)),
                    !.llm_requests = LogAfter(0)]
    /\ pc = "decide"
    /\ feedback = None
    /\ hz = NoLocals
    /\ vt = NoLocals
    /\ ex = NoLocals
    /\ tasks = <<>>
    /\ fault_budget = DeliberationFaults
    /\ bodies = 1
    /\ progress = <<Event("iteration_start", "", 0),
                    Event("stage_start", "recruitment", 0),
                    Event("stage_complete", "recruitment", 0)>>
    /\ callback_faults = 0
    /\ llm_answer = None
    /\ arg = None
    /\ ret = None

DeliberationNext ==
    \/ Decide
    \/ HorizontalCall
    \/ HorizontalRoundEnd
    \/ HorizontalSynthesize
    \/ VerticalStart
    \/ VerticalSolver
    \/ TaskStep
    \/ VerticalJoin
    \/ VerticalIterationEnd

DeliberationSpec == DeliberationInit /\ [][DeliberationNext]_vars

\* run_workflow at line 1408 of the first iteration, after a horizontal
\* discussion that reached consensus in its first round
ExecutionInit ==
    /\ NoBackend
    /\ NoTransport
    /\ AGENT_B_URLS \in WorkflowConfigurations
    /\ \E parsed \in StageRecruitAnswers(ExecutionExperts) :
         LET recruitment == BuildRecruitment(parsed, AGENT_B_URLS)
         IN  /\ recruitment.communication_structure = "horizontal"
             /\ state = [NewState(1, 70) EXCEPT
                    !.recruitment = Some(recruitment),
                    !.decision = Some([final_decision    |-> <<"synthesis", 0>>,
                                       rounds            |-> 1,
                                       consensus_reached |-> TRUE,
                                       structure_used    |-> "horizontal"]),
                    !.llm_requests = LogAfter(Len(recruitment.experts) + 1)]
    /\ pc = "execute"
    /\ feedback = None
    /\ hz = NoLocals
    /\ vt = NoLocals
    /\ ex = NoLocals
    /\ tasks = <<>>
    /\ fault_budget = ExecutionFaults
    /\ bodies = 1
    /\ progress = <<Event("iteration_start", "", 0),
                    Event("stage_start", "recruitment", 0),
                    Event("stage_complete", "recruitment", 0),
                    Event("stage_start", "decision", 0),
                    Event("discussion_round", "decision", 1),
                    Event("stage_complete", "decision", 0)>>
    /\ callback_faults = 0
    /\ llm_answer = None
    /\ arg = None
    /\ ret = None

ExecutionNext ==
    \/ ExecuteStart
    \/ TaskStep
    \/ ExecuteCollect
    \/ ExecuteEnd

ExecutionSpec == ExecutionInit /\ [][ExecutionNext]_vars

\* the loop of run_workflow has been left through its guard or its break
LoopExited == pc \in {"synthesis", "complete", "done"}

\* the driver is inside the loop body (lines 1392-1452)
InLoopBody ==
    pc \in {"recruit", "decide", "h_call", "h_round_end", "h_synth", "v_start", "v_solver",
            "v_join", "v_iter_end", "execute", "x_collect", "evaluate", "record"}

\* C1: the loop body is entered at most max_iterations times, and under fair
\* scheduling every run in which no stage call raises goes on to the
\* synthesis and sets completed = true
C1_Termination ==
    /\ [](bodies <= Max(state.max_iterations, 0))
    /\ [](state.completed => state.final_output # None)
    /\ <>(pc = "raised" \/ state.completed)

C1_Witness ==
    /\ state.completed
    /\ bodies = MaxWorkflowIterations
    /\ state.max_iterations = MaxWorkflowIterations

C3_DenseSeq ==
    \A i \in 1..Len(state.llm_requests) : state.llm_requests[i].seq = i


\* every response of a horizontal round holds the sentinel [CONSENSUS]
EveryConsensus(responses) ==
    \A i \in 1..Len(responses) : responses[i].consensus

\* C4: in a horizontal discussion no call of a further round is issued once
\* every response of a round holds [CONSENSUS]; the rounds then number K and
\* consensus_reached is true; while some response lacks the sentinel the
\* rounds go on up to the cap of 3
C4_HorizontalConsensus ==
    /\ [](pc \in {"h_call", "h_round_end", "h_synth"} =>
            LET rounds == hz.discussion_rounds
            IN  /\ \A k \in 1..Len(rounds) :
                        /\ rounds[k].round = k
                        /\ Len(rounds[k].responses) = Len(Experts)
                /\ \A k \in 1..(Len(rounds) - 1) : ~EveryConsensus(rounds[k].responses)
                /\ pc \in {"h_call", "h_round_end"} =>
                        /\ hz.round_num = Len(rounds) + 1
                        /\ hz.round_num <= max_rounds
                        /\ \A k \in 1..Len(rounds) : ~EveryConsensus(rounds[k].responses)
                /\ pc = "h_synth" =>
                        /\ Len(rounds) >= 1
                        /\ hz.consensus_reached = EveryConsensus(rounds[Len(rounds)].responses)
                        /\ ~hz.consensus_reached => Len(rounds) = max_rounds)
    /\ [][pc = "h_synth" /\ pc' = "execute" =>
            /\ state'.decision # None
            /\ state'.decision[1].rounds = Len(hz.discussion_rounds)
            /\ state'.decision[1].consensus_reached = hz.consensus_reached
            /\ state'.decision[1].structure_used = "horizontal"]_vars

C4_Witness ==
    /\ pc = "h_synth"
    /\ Len(Experts) = DeliberationExperts
    /\ Len(hz.discussion_rounds) = 2
    /\ hz.consensus_reached

\* every critique of a vertical iteration holds the sentinel [APPROVED]
EveryApproved(responses) ==
    \A i \in 1..Len(responses) : responses[i].approved

\* C5: in a vertical decision no solver or reviewer call is issued after an
\* iteration in which every reviewer approved; the DecisionResult then
\* counts that iteration's number as its rounds, has consensus_reached =
\* true and that iteration's proposal as final_decision
C5_VerticalApproval ==
    /\ [](pc \in {"v_solver", "v_join", "v_iter_end"} =>
            LET rounds == vt.discussion_rounds
            IN  /\ vt.iteration = Len(rounds) + 1
                /\ vt.iteration <= max_vertical_iterations
                /\ \A k \in 1..Len(rounds) :
                        /\ rounds[k].iteration = k
                        /\ Len(rounds[k].reviewer_responses) = Len(vt.reviewers)
                        /\ ~EveryApproved(rounds[k].reviewer_responses))
    /\ [][pc = "v_iter_end" /\ EveryApproved(vt.reviewer_responses) =>
            /\ Len(vt.reviewer_responses) = Len(vt.reviewers)
            /\ pc' = "execute"
            /\ tasks' = <<>>
            /\ state'.llm_requests = state.llm_requests
            /\ state'.decision # None
            /\ state'.decision[1].rounds = vt.iteration
            /\ state'.decision[1].consensus_reached
            /\ state'.decision[1].final_decision = vt.proposal
            /\ vt.proposal[2] = vt.iteration]_vars

C5_Witness ==
    /\ pc = "execute"
    /\ Len(Experts) = DeliberationExperts
    /\ state.decision # None
    /\ state.decision[1].structure_used = "vertical"
    /\ state.decision[1].rounds = 2
    /\ state.decision[1].consensus_reached
    /\ state.decision[1].final_decision = <<"proposal", 2>>

\* C6: the ExecutionResult of execute_actions has success_count +
\* failure_count = len(experts) and one output per expert index, whatever
\* the mix of failing calls and the order in which the subtasks complete
C6_ExecutionCounts ==
    /\ pc = "x_collect" =>
            /\ ex.success_count + ex.failure_count = Len(ex.outputs)
            /\ Len(ex.outputs) = Cardinality({i \in 1..Len(tasks) : tasks[i].collected})
    /\ pc = "evaluate" /\ state.execution # None =>
            LET execution == state.execution[1]
                outputs   == execution.outputs
            IN  /\ execution.success_count + execution.failure_count = Len(Experts)
                /\ Len(outputs) = Len(Experts)
                /\ \A x \in 1..Len(Experts) :
                        Cardinality({k \in 1..Len(outputs) :
                                        outputs[k].index = Experts[x].index}) = 1
                /\ execution.success_count =
                        Cardinality({k \in 1..Len(outputs) : outputs[k].success})

C6_Witness ==
    /\ pc = "evaluate"
    /\ state.execution # None
    /\ Len(Experts) = ExecutionExperts
    /\ state.execution[1].failure_count = ExecutionFaults
    /\ state.execution[1].success_count = ExecutionExperts - ExecutionFaults
    /\ state.execution[1].outputs[1].index = ExecutionExperts - 1

\* C8: an evaluation produced while iteration + 1 >= max_iterations has
\* should_iterate = false, whatever the score, the threshold and the LLM's
\* answer; a workflow that leaves the loop in its last allowed iteration
\* has should_iterate = false
C8_BudgetOverride ==
    /\ [][pc = "evaluate" /\ pc' = "record"
            /\ state.iteration + 1 >= state.max_iterations =>
                ~state'.evaluation[1].should_iterate]_vars
    /\ [](/\ pc = "record" \/ LoopExited
          /\ state.evaluation # None
          /\ state.iteration + 1 >= state.max_iterations
          => ~state.evaluation[1].should_iterate)

C8_Witness ==
    /\ pc = "record"
    /\ state.max_iterations = MaxWorkflowIterations
    /\ state.iteration + 1 = state.max_iterations
    /\ state.success_threshold = 70
    /\ state.evaluation[1].score < state.success_threshold
    /\ ~state.evaluation[1].goal_achieved
    /\ ~state.evaluation[1].should_iterate


(***************************************************************************)
(* Properties.                                                             *)
(***************************************************************************)
\* the contiguous pieces of a text
Slices(text) == {<<i, j>> \in (1..Len(text)) \X (1..Len(text)) : i <= j}

NoBraceOutside(text, i, j) ==
    \A k \in 1..Len(text) : (k < i \/ k > j) => text[k] \notin {"L", "R"}

\* C7: with success_threshold = T > 0 every evaluation returned by
\* evaluate_results with goal_achieved = true has score >= T, and every one with
\* score < T has goal_achieved = false, whatever flags the evaluator LLM gave;
\* the score is the LLM's (50 when it gave none).
C7_AcceptedMeetsThreshold ==
    pc = "evaluated" =>
        LET e == ret[1]
            T == state.success_threshold
        IN  /\ e.score = DictGet(arg.score, 50)
            /\ T > 0 => /\ e.goal_achieved => e.score >= T
                        /\ e.score < T => ~e.goal_achieved

\* the LLM claimed success with a score below the threshold
C7_Witness ==
    /\ pc = "evaluated"
    /\ state.success_threshold = 70
    /\ arg.goal_achieved = Some(TRUE)
    /\ arg.score = Some(69)
    /\ ~ret[1].goal_achieved

\* C9: the experts built from a parsed expert list are the first
\* MAX_PARALLEL_WORKERS entries of the list, in order; expert i has index i and
\* the endpoint AGENT_B_URLS[i mod len(AGENT_B_URLS)].
C9_RoundRobinEndpoints ==
    pc = "built" =>
        LET experts == ret[1].experts
            raw     == DictGet(arg.experts, <<>>)
        IN  /\ Len(experts) <= MAX_PARALLEL_WORKERS
            /\ \A i \in 0..(Len(experts) - 1) :
                  /\ experts[i + 1].endpoint = AGENT_B_URLS[(i % Len(AGENT_B_URLS)) + 1]
                  /\ experts[i + 1].index = i
            /\ raw # <<>> =>
                  /\ Len(experts) = Min(Len(raw), MAX_PARALLEL_WORKERS)
                  /\ \A i \in 1..Len(experts) :
                        experts[i].role = DictGet(raw[i].role, "executor")

\* a list longer than the cap, over fewer endpoints than experts
C9_Witness ==
    /\ pc = "built"
    /\ Len(DictGet(arg.experts, <<>>)) > MAX_PARALLEL_WORKERS
    /\ Len(AGENT_B_URLS) = 2
    /\ Len(ret[1].experts) = MAX_PARALLEL_WORKERS
    /\ ret[1].experts[MAX_PARALLEL_WORKERS].endpoint = AGENT_B_URLS[1]

C11_ThresholdForcesIteration ==
    /\ [][/\ pc = "record"
          /\ state.success_threshold > 0
          /\ state.evaluation[1].score < state.success_threshold
          /\ state.iteration + 1 < state.max_iterations
          => /\ pc' = "loop"
             /\ state'.iteration = state.iteration + 1
             /\ state'.iteration < state'.max_iterations]_vars
    /\ [][pc = "loop" /\ state.iteration < state.max_iterations => pc' = "recruit"]_vars
    /\ [][/\ pc = "record"
          /\ state.success_threshold > 0
          /\ state.evaluation[1].score >= state.success_threshold
          => /\ pc' = "synthesis"
             /\ state'.iteration = state.iteration
             /\ _state_to_response(state').iterations = state.iteration + 1]_vars
    /\ [](/\ LoopExited
          /\ state.success_threshold > 0
          /\ state.evaluation # None
          /\ state.evaluation[1].score >= state.success_threshold
          => LET last == state.iteration_history[Len(state.iteration_history)]
             IN  _state_to_response(state).iterations = last.iteration + 1)

C11_Witness ==
    /\ pc = "recruit"
    /\ state.iteration = 1
    /\ state.success_threshold = 70
    /\ state.evaluation[1].score < 70
    /\ llm_answer = Some([goal_achieved |-> Some(TRUE), score |-> None,
                          should_iterate |-> Some(FALSE)])

\* every recorded iteration scored below a threshold T > 0
AllBelowThreshold ==
    /\ state.success_threshold > 0
    /\ \A k \in 1..Len(state.iteration_history) :
            state.iteration_history[k].score < state.success_threshold

\* C12: with a threshold T > 0 and every evaluation scoring below T, a
\* workflow with max_iterations >= 1 runs exactly max_iterations iterations,
\* the last one with iteration = max_iterations - 1, ends with goal_achieved
\* = false and should_iterate = false, and then synthesizes and completes
C12_Exhaustion ==
    /\ [](LoopExited /\ AllBelowThreshold /\ state.max_iterations >= 1 =>
            /\ Len(state.iteration_history) = state.max_iterations
            /\ bodies = state.max_iterations
            /\ state.iteration = state.max_iterations - 1
            /\ \A k \in 1..Len(state.iteration_history) :
                    state.iteration_history[k].iteration = k - 1
            /\ state.evaluation # None
            /\ ~state.evaluation[1].goal_achieved
            /\ ~state.evaluation[1].should_iterate)
    /\ (pc = "synthesis" /\ AllBelowThreshold /\ state.max_iterations >= 1)
          ~> (pc = "raised" \/ (state.completed /\ state.final_output # None))

C12_Witness ==
    /\ pc = "done"
    /\ state.completed
    /\ AllBelowThreshold
    /\ state.max_iterations = MaxWorkflowIterations
    /\ Len(state.iteration_history) = MaxWorkflowIterations
    /\ ~state.evaluation[1].goal_achieved

\* the driver is inside the deliberation of the current iteration
InDeliberation ==
    pc \in {"h_call", "h_round_end", "h_synth", "v_start", "v_solver", "v_join", "v_iter_end"}

\* C13: a failing worker call never aborts the workflow or its stage: the
\* step of the failure leaves the driver in the stage, every expert of a
\* horizontal round, every reviewer and every executor subtask still
\* answers, a deliberation is never stuck and is left only for the execution
\* (or by an exception of the orchestrator's own synthesis call), and an
\* execution stage is never stuck and is left only for the call of
\* evaluate_results, also when every subtask failed
C13_WorkerFailureContained ==
    /\ [][fault_budget' < fault_budget =>
            /\ pc' # "raised"
            /\ pc = "h_call" => pc' \in {"h_call", "h_round_end"}
            /\ pc = "v_solver" => pc' \in {"v_join", "v_iter_end"}
            /\ pc \in {"v_join", "x_collect"} => pc' = pc /\ Len(tasks') = Len(tasks)]_vars
    /\ [](pc = "h_round_end" => Len(hz.round_responses) = Len(Experts))
    /\ [](pc = "v_iter_end" => Len(vt.reviewer_responses) = Len(vt.reviewers))
    /\ [](pc = "evaluate" => Len(state.execution[1].outputs) = Len(Experts))
    /\ [][/\ InDeliberation => pc' = "execute" \/ pc' = "raised" \/ InDeliberation'
          /\ pc = "x_collect" => pc' = "x_collect" \/ pc' = "evaluate"]_vars
    /\ [](InDeliberation \/ pc = "x_collect" => ENABLED <<Next>>_vars)

C13_Witness ==
    /\ pc = "evaluate"
    /\ fault_budget < MaxFaults
    /\ state.execution[1].success_count = 0
    /\ state.execution[1].failure_count = Len(Experts)

\* C14 (as stated): whatever intermediate calls fail, among them the
\* orchestrator's own LLM calls, run_workflow is never left by an exception:
\* it goes on to return its response with completed = true
C14_AlwaysReturns == pc # "raised"

\* C15 (as stated): every worker call issued in the execution stage, failed
\* or successful, has a record in llm_requests: when execute_actions
\* returns, the log holds one "execution" record of this iteration per
\* subtask that called its worker
C15_EveryCallRecorded ==
    pc = "evaluate" =>
        Cardinality({k \in 1..Len(state.llm_requests) :
                        /\ state.llm_requests[k].stage = "execution"
                        /\ state.llm_requests[k].iteration = state.iteration})
            = Cardinality({x \in 1..Len(Experts) : ~IsBlank(Experts[x].endpoint)})

\* C16 (as stated): with every worker and LLM call succeeding, a progress
\* callback that raises neither makes an exception leave run_workflow nor
\* changes a stage result: no response of a horizontal round, no proposal,
\* no critique and no executor output becomes an error result
C16_CallbackContained ==
    /\ pc # "callback_raised"
    /\ pc \in {"h_call", "h_round_end", "h_synth"} =>
            \A i \in 1..Len(hz.round_responses) : hz.round_responses[i].ok
    /\ pc \in {"v_join", "v_iter_end"} => vt.proposal[1] = "proposal"
    /\ \A i \in 1..Len(tasks) : tasks[i].pc = "done" => tasks[i].ok
    /\ state.execution # None => state.execution[1].failure_count = 0

\* C17 (as stated): the workflow state is written by the driver thread only,
\* or the writes of the pool threads are serialized: no step of a pool
\* thread changes `state` while another pool thread is between its read of
\* len(llm_requests) and its append
C17_SingleWriter ==
    [][\A i \in 1..Len(tasks) :
            /\ i <= Len(tasks')
            /\ tasks'[i].pc # tasks[i].pc
            /\ state' # state
            => \A j \in 1..Len(tasks) : j # i => tasks[j].pc # "append"]_vars

\* the execution_result events of the current iteration, in dispatch order
ExecutionResultEvents ==
    LET Mine(e) == e.event = "execution_result" /\ e.iteration = state.iteration
    IN  SelectSeq(progress, Mine)

\* C18: when evaluate_results of iteration k is called, every executor
\* subtask of iteration k has finished and its execution_result event has
\* been dispatched, exactly one per expert, for every interleaving of the
\* subtasks
C18_JoinBarrier ==
    /\ [][pc = "x_collect" /\ pc' = "evaluate" =>
            /\ Len(tasks) = Len(Experts)
            /\ \A i \in 1..Len(tasks) : tasks[i].pc = "done"
            /\ Len(ExecutionResultEvents) = Len(Experts)]_vars
    /\ [](pc = "x_collect" =>
            /\ Len(ExecutionResultEvents) = Len(ex.outputs)
            /\ \A i \in 1..Len(tasks) : tasks[i].collected => tasks[i].pc = "done")
    /\ [](pc = "evaluate" =>
            /\ tasks = <<>>
            /\ Len(ExecutionResultEvents) = Len(Experts)
            /\ \A n \in 1..Len(Experts) : ExecutionResultEvents[n].n = n
            /\ progress[Len(progress)] = Event("stage_complete", "execution", 0)
            /\ \A k \in 1..Len(progress) :
                    ~(/\ progress[k].event = "stage_start"
                      /\ progress[k].stage = "evaluation"
                      /\ progress[k].iteration = state.iteration))

C18_Witness ==
    /\ pc = "evaluate"
    /\ Len(Experts) = ExecutionExperts
    /\ Len(ExecutionResultEvents) = ExecutionExperts
    /\ state.execution[1].outputs[1].index = ExecutionExperts - 1
    /\ state.execution[1].outputs[ExecutionExperts].index = 0

\* the events that open or close a stage or an iteration, in dispatch order
StageEvents ==
    LET Boundary(e) == e.event \in {"iteration_start", "stage_start", "stage_complete",
                                     "iteration_complete"}
    IN  SelectSeq(progress, Boundary)

\* the stage after `stage` in an iteration
NextStage(stage) ==
    CASE stage = "recruitment" -> "decision"
      [] stage = "decision"    -> "execution"
      [] stage = "execution"   -> "evaluation"
      [] OTHER                 -> "none"

\* event b may directly follow event a among the stage events
Follows(a, b) ==
    CASE a.event = "iteration_start" ->
            b.event = "stage_start" /\ b.stage = "recruitment" /\ b.iteration = a.iteration
      [] a.event = "stage_start" ->
            b.event = "stage_complete" /\ b.stage = a.stage /\ b.iteration = a.iteration
      [] a.event = "stage_complete" /\ a.stage = "evaluation" ->
            b.event = "iteration_complete" /\ b.iteration = a.iteration
      [] a.event = "stage_complete" /\ a.stage = "synthesis" -> FALSE
      [] a.event = "stage_complete" ->
            b.event = "stage_start" /\ b.stage = NextStage(a.stage) /\ b.iteration = a.iteration
      [] a.event = "iteration_complete" ->
            \/ b.event = "iteration_start" /\ b.iteration = a.iteration + 1
            \/ b.event = "stage_start" /\ b.stage = "synthesis" /\ b.iteration = a.iteration
      [] OTHER -> FALSE

\* C19: the stages of a workflow are sequential: in each iteration they
\* start and complete in the order recruitment, decision, execution,
\* evaluation, each start followed by its completion before the next start;
\* iteration k + 1 starts only after the evaluation of iteration k
\* completed; the synthesis starts after the last evaluation and runs once;
\* the events sent inside a stage lie between its start and its completion
C19_StagesSequential ==
    /\ StageEvents # <<>> =>
            \/ StageEvents[1] = [event |-> "iteration_start", stage |-> "", iteration |-> 0, n |-> 0]
            \/ StageEvents[1] = [event |-> "stage_start", stage |-> "synthesis", iteration |-> 0, n |-> 0]
    /\ \A k \in 1..(Len(StageEvents) - 1) : Follows(StageEvents[k], StageEvents[k + 1])
    /\ \A p \in 1..Len(progress) :
            progress[p].event \in {"discussion_round", "vertical_iteration", "execution_result"} =>
                \E q \in 1..(p - 1) :
                    /\ progress[q] = [event |-> "stage_start", stage |-> progress[p].stage,
                                      iteration |-> progress[p].iteration, n |-> 0]
                    /\ \A r \in (q + 1)..(p - 1) :
                            progress[r].event \in {"discussion_round", "vertical_iteration",
                                                   "execution_result"}
    /\ pc = "done" => progress[Len(progress)].event = "stage_complete"
                      /\ progress[Len(progress)].stage = "synthesis"

C19_Witness ==
    /\ pc = "done"
    /\ state.iteration = 1
    /\ Len(StageEvents) = 2 * 10 + 2

\* C20: when the iteration loop has been left, iteration_history holds
\* state.iteration + 1 summaries, so that the number of iterations reported
\* by the response equals the number of summaries
C20_HistoryLength ==
    LoopExited =>
        /\ Len(state.iteration_history) = state.iteration + 1
        /\ _state_to_response(state).iterations = Len(state.iteration_history)

MaxRequests == 2

\* PROGRESS lines one generation prints
MaxProgress == 1

\* number of distinct values of str(uuid.uuid4())[:8] in the model
MaxRequestIds == 2

\* handler tasks the environment cancels
MaxCancellations == 1

\* the values of str(uuid.uuid4())[:8] (line 405): a random draw that is
\* not compared with the ids in use
RequestIds == 1..MaxRequestIds

\* what a request carries: a text that is not JSON, a body whose reading
\* fails with another error, JSON that is not an object, an object without a
\* non-empty string prompt, an object with one
Bodies == {"invalid_json", "read_error", "not_object", "no_prompt", "prompt"}

\* a coroutine that has not been started
Idle == [pc |-> "idle", request_id |-> 0, body |-> "", progressed |-> 0]

BackendInit ==
    /\ NoWorkflow
    /\ NoTransport
    /\ AGENT_B_URLS = <<"u1">>
    /\ pc = "serve"
    /\ arg = None
    /\ ret = None
    /\ _METRICS_READY \in BOOLEAN
    /\ _inflight_count = 0
    /\ INFLIGHT = 0
    /\ REQUESTS_TOTAL = [success |-> 0, error |-> 0]
    /\ handlers = [r \in 1..MaxRequests |-> Idle]
    /\ backend_log = <<>>
    /\ cancellations = MaxCancellations

\* INFLIGHT.inc() / INFLIGHT.dec() under `if _METRICS_READY`
Gauge(delta) == IF _METRICS_READY THEN INFLIGHT + delta ELSE INFLIGHT

\* _record_metrics (lines 141-156)
_record_metrics(status) ==
    IF _METRICS_READY
    THEN [REQUESTS_TOTAL EXCEPT ![status] = @ + 1]
    ELSE REQUESTS_TOTAL

\* a lifecycle line of request r
Line(event, r) == [event |-> event, req |-> r, request_id |-> handlers[r].request_id]

\* lines 405-413: the request is given an id and counted, up to the await
\* of its body
Admit(r) ==
    /\ handlers[r].pc = "idle"
    /\ \E id \in RequestIds, body \in Bodies :
         handlers' = [handlers EXCEPT ![r] = [pc |-> "body", request_id |-> id,
                                              body |-> body, progressed |-> 0]]
    /\ _inflight_count' = _inflight_count + 1
    /\ INFLIGHT' = Gauge(1)
    /\ UNCHANGED <<AGENT_B_URLS, transport_vars, _METRICS_READY, REQUESTS_TOTAL, backend_log, cancellations,
                   state, pc, feedback, hz, vt, ex, tasks, fault_budget, bodies, progress,
                   callback_faults, llm_answer, arg, ret>>

\* lines 418-455: `await request.json()` returns or raises, the prompt is
\* checked and the START line is printed
ReadBody(r) ==
    /\ handlers[r].pc = "body"
    /\ CASE handlers[r].body \in {"invalid_json", "no_prompt"} ->
              \* lines 420-425 and 428-433: counted down, 400 returned
              /\ _inflight_count' = _inflight_count - 1
              /\ INFLIGHT' = Gauge(-1)
              /\ handlers' = [handlers EXCEPT ![r].pc = "returned"]
              /\ UNCHANGED backend_log
         [] handlers[r].body \in {"read_error", "not_object"} ->
              \* an exception that is not json.JSONDecodeError (line 420), or
              \* the AttributeError of data.get (line 427), leaves handle_chat
              /\ handlers' = [handlers EXCEPT ![r].pc = "raised"]
              /\ UNCHANGED <<_inflight_count, INFLIGHT, backend_log>>
         [] OTHER ->
              /\ backend_log' = Append(backend_log, Line("START", r))
              /\ handlers' = [handlers EXCEPT ![r].pc = "generate"]
              /\ UNCHANGED <<_inflight_count, INFLIGHT>>
    /\ UNCHANGED <<AGENT_B_URLS, transport_vars, _METRICS_READY, REQUESTS_TOTAL, cancellations,
                   state, pc, feedback, hz, vt, ex, tasks, fault_budget, bodies, progress,
                   callback_faults, llm_answer, arg, ret>>

\* lines 246-262: generate prints a PROGRESS line
GenerateProgress(r) ==
    /\ handlers[r].pc = "generate"
    /\ handlers[r].progressed < MaxProgress
    /\ backend_log' = Append(backend_log, Line("PROGRESS", r))
    /\ handlers' = [handlers EXCEPT ![r].progressed = @ + 1]
    /\ UNCHANGED <<AGENT_B_URLS, transport_vars, _METRICS_READY, _inflight_count, INFLIGHT, REQUESTS_TOTAL,
                   cancellations, state, pc, feedback, hz, vt, ex, tasks, fault_budget,
                   bodies, progress, callback_faults, llm_answer, arg, ret>>

\* lines 463-521: `await _backend.generate(...)` returns, or it (or
\* count_tokens) raises an Exception
GenerateReturn(r) ==
    /\ handlers[r].pc = "generate"
    /\ \E status \in {"success", "error"} :
         /\ _inflight_count' = _inflight_count - 1
         /\ INFLIGHT' = Gauge(-1)
         /\ backend_log' = Append(backend_log,
                                  Line(IF status = "success" THEN "DONE" ELSE "ERROR", r))
         /\ REQUESTS_TOTAL' = _record_metrics(status)
    /\ handlers' = [handlers EXCEPT ![r].pc = "returned"]
    /\ UNCHANGED <<AGENT_B_URLS, transport_vars, _METRICS_READY, cancellations,
                   state, pc, feedback, hz, vt, ex, tasks, fault_budget, bodies, progress,
                   callback_faults, llm_answer, arg, ret>>

\* the handler task is cancelled at one of its awaits (line 419 or 466):
\* asyncio.CancelledError is not an Exception, so neither `except` clause
\* (lines 420, 482) catches it
Cancel(r) ==
    /\ handlers[r].pc \in {"body", "generate"}
    /\ cancellations > 0
    /\ cancellations' = cancellations - 1
    /\ handlers' = [handlers EXCEPT ![r].pc = "cancelled"]
    /\ UNCHANGED <<AGENT_B_URLS, transport_vars, _METRICS_READY, _inflight_count, INFLIGHT, REQUESTS_TOTAL,
                   backend_log, state, pc, feedback, hz, vt, ex, tasks, fault_budget,
                   bodies, progress, callback_faults, llm_answer, arg, ret>>

BackendNext ==
    \E r \in 1..MaxRequests :
        \/ Admit(r)
        \/ ReadBody(r)
        \/ GenerateProgress(r)
        \/ GenerateReturn(r)
        \/ Cancel(r)

BackendSpec == BackendInit /\ [][BackendNext]_vars

\* the requests that were admitted and have not finished
Active == {r \in 1..Len(handlers) : handlers[r].pc \in {"body", "generate"}}

\* C22: the in-flight counter (and the gauge, when metrics exist) equals the
\* number of requests that were admitted and have not yet finished; it is
\* never negative and it is 0 when no request is active
C22_InflightCount ==
    /\ _inflight_count = Cardinality(Active)
    /\ _METRICS_READY => INFLIGHT = Cardinality(Active)
    /\ _inflight_count >= 0

\* C23: no two requests that are generating at the same time carry the same
\* request_id
C23_UniqueRequestIds ==
    \A r, s \in 1..Len(handlers) :
        /\ r # s
        /\ handlers[r].pc = "generate"
        /\ handlers[s].pc = "generate"
        => handlers[r].request_id # handlers[s].request_id

\* the positions in the backend's output of the lines of request r with an
\* event of `events`
LinesOf(r, events) ==
    {k \in 1..Len(backend_log) : backend_log[k].req = r /\ backend_log[k].event \in events}

\* handle_chat has returned or has been left by an exception
Finished(r) == handlers[r].pc \in {"returned", "raised", "cancelled"}

\* C24: a request prints at most one START and at most one terminal line
\* (DONE or ERROR); its PROGRESS lines and its terminal line come after its
\* START and its PROGRESS lines before its terminal line; a request that
\* printed START and has finished printed exactly one terminal line, and
\* requests_total counts one request per terminal line under its status
C24_Lifecycle ==
    /\ \A r \in 1..Len(handlers) :
         /\ Cardinality(LinesOf(r, {"START"})) <= 1
         /\ Cardinality(LinesOf(r, {"DONE", "ERROR"})) <= 1
         /\ \A k \in LinesOf(r, {"PROGRESS", "DONE", "ERROR"}) :
                \E j \in LinesOf(r, {"START"}) : j < k
         /\ \A k \in LinesOf(r, {"PROGRESS"}) :
                \A j \in LinesOf(r, {"DONE", "ERROR"}) : k < j
         /\ Finished(r) /\ LinesOf(r, {"START"}) # {} =>
                Cardinality(LinesOf(r, {"DONE", "ERROR"})) = 1
    /\ _METRICS_READY =>
         /\ REQUESTS_TOTAL.success =
                Cardinality({k \in 1..Len(backend_log) : backend_log[k].event = "DONE"})
         /\ REQUESTS_TOTAL.error =
                Cardinality({k \in 1..Len(backend_log) : backend_log[k].event = "ERROR"})

\* C25: every EvaluationResult returned by evaluate_results with
\* goal_achieved = true has should_iterate = false, for every
\* success_threshold (0 included) and every answer of the evaluator LLM
C25_GoalStopsIteration ==
    pc = "evaluated" => (ret[1].goal_achieved => ~ret[1].should_iterate)

\* threshold 0, budget left, and the LLM asked for both
C25_Witness ==
    /\ pc = "evaluated"
    /\ state.success_threshold = 0
    /\ state.iteration + 1 < state.max_iterations
    /\ arg.goal_achieved = Some(TRUE)
    /\ arg.should_iterate = Some(TRUE)
    /\ ret[1].goal_achieved
    /\ ~ret[1].should_iterate

\* C26: whenever evaluate_results returns should_iterate = true, the
\* returned feedback is not empty
C26_FeedbackFallback ==
    pc = "evaluated" => (ret[1].should_iterate => ret[1].feedback # <<>>)

\* C27: the score of every evaluation evaluate_results returns (the one
\* run_workflow stores in the state and in iteration_history) is an integer
\* in 0..100, whatever score the evaluator LLM returned
C27_ScoreRange ==
    pc = "evaluated" => ret[1].score \in 0..100

\* C28: the stored success_threshold is in 0..100; when it is 0 the result
\* of evaluate_results asks for another iteration (and run_workflow goes on,
\* line 1448) exactly when the evaluator LLM returned should_iterate = true
\* and goal_achieved = false and iteration + 1 < max_iterations
C28_ThresholdZero ==
    /\ state.success_threshold \in 0..100
    /\ pc = "evaluated" /\ state.success_threshold = 0 =>
         (ret[1].should_iterate <=>
             /\ DictGet(arg.should_iterate, FALSE)
             /\ ~DictGet(arg.goal_achieved, FALSE)
             /\ state.iteration + 1 < state.max_iterations)

\* threshold 0 and a score of 0: the LLM's wish to iterate is followed
C28_Witness ==
    /\ pc = "evaluated"
    /\ state.success_threshold = 0
    /\ arg.score = Some(0)
    /\ arg.should_iterate = Some(TRUE)
    /\ arg.goal_achieved = Some(FALSE)
    /\ ret[1].should_iterate
    /\ ~ret[1].goal_achieved

(***************************************************************************)
(* _vertical_decision on its own: run_workflow at line 1405 of the first   *)
(* iteration, with a vertical recruitment.                                 *)
(***************************************************************************)
\* largest expert list of the vertical decision
VerticalExperts == 3

\* worker-call failures the environment injects in the vertical decision
VerticalFaults == 1

VerticalInit ==
    /\ NoBackend
    /\ NoTransport
    /\ AGENT_B_URLS \in WorkflowConfigurations
    /\ \E parsed \in StageRecruitAnswers(VerticalExperts) :
         LET recruitment == BuildRecruitment(parsed, AGENT_B_URLS)
         IN  /\ recruitment.communication_structure = "vertical"
             /\ state = [NewState(1, 70) EXCEPT
                    !.recruitment = Some(recruitment),
                    !.llm_requests = LogAfter(0)]
    /\ pc = "v_start"
    /\ feedback = None
    /\ hz = NoLocals
    /\ vt = NoLocals
    /\ ex = NoLocals
    /\ tasks = <<>>
    /\ fault_budget = VerticalFaults
    /\ bodies = 1
    /\ progress = <<Event("iteration_start", "", 0),
                    Event("stage_start", "recruitment", 0),
                    Event("stage_complete", "recruitment", 0),
                    Event("stage_start", "decision", 0)>>
    /\ callback_faults = 0
    /\ llm_answer = None
    /\ arg = None
    /\ ret = None

VerticalNext ==
    \/ VerticalStart
    \/ VerticalSolver
    \/ TaskStep
    \/ VerticalJoin
    \/ VerticalIterationEnd

VerticalSpec == VerticalInit /\ [][VerticalNext]_vars

C30_ErrorsNeverCount ==
    /\ pc = "h_round_end" =>
         ((\E i \in 1..Len(hz.round_responses) : ~hz.round_responses[i].ok)
            => ~AllConsensus(hz.round_responses))
    /\ pc = "v_iter_end" =>
         ((\E i \in 1..Len(vt.reviewer_responses) : ~vt.reviewer_responses[i].ok)
            => ~vt.all_approved)

\* C31: a vertical decision over a single expert has no reviewers and no
\* reviewer task; its first iteration is its last: one solver call is
\* issued (at most one record is added to llm_requests), the round is
\* all_approved, and the DecisionResult has one round, consensus_reached =
\* true and the first proposal as final_decision
C31_NoReviewers ==
    /\ [](pc \in {"v_solver", "v_join", "v_iter_end"} /\ Len(Experts) = 1 =>
            /\ vt.reviewers = <<>>
            /\ vt.iteration = 1
            /\ vt.discussion_rounds = <<>>
            /\ tasks = <<>>
            /\ pc # "v_join")
    /\ [][pc = "v_solver" /\ Len(Experts) = 1 =>
            /\ pc' = "v_iter_end"
            /\ vt'.proposal[2] = 1
            /\ vt'.all_approved
            /\ Len(state'.llm_requests) <= Len(state.llm_requests) + 1]_vars
    /\ [][pc = "v_iter_end" /\ Len(Experts) = 1 =>
            /\ pc' = "execute"
            /\ state'.llm_requests = state.llm_requests
            /\ state'.decision # None
            /\ state'.decision[1].rounds = 1
            /\ state'.decision[1].consensus_reached
            /\ state'.decision[1].structure_used = "vertical"
            /\ state'.decision[1].final_decision = vt.proposal]_vars

\* the single expert answered and its proposal is the decision
C31_Witness ==
    /\ pc = "execute"
    /\ Len(Experts) = 1
    /\ state.decision # None
    /\ state.decision[1].rounds = 1
    /\ state.decision[1].consensus_reached
    /\ state.decision[1].final_decision = <<"proposal", 1>>
    /\ Len(state.llm_requests) = Len(LogAfter(0)) + 1

\* C32: in a vertical decision the solver is the first expert whose role is
\* planner, or the first expert when no expert is a planner; the reviewers are
\* all the other experts in recruitment order, the solver is not one of them,
\* and there is one reviewer fewer than experts even when several experts are
\* planners
C32_SolverAndReviewers ==
    pc \in {"v_solver", "v_join", "v_iter_end"} =>
        LET planners == {i \in Positions(Experts) : Experts[i].role = "planner"}
        IN  /\ vt.solver \in Positions(Experts)
            /\ planners # {} =>
                 /\ vt.solver \in planners
                 /\ \A i \in planners : vt.solver <= i
            /\ planners = {} => vt.solver = 1
            /\ \A k \in 1..Len(vt.reviewers) : vt.reviewers[k] # vt.solver
            /\ \A k \in 1..(Len(vt.reviewers) - 1) :
                 vt.reviewers[k] < vt.reviewers[k + 1]
            /\ {vt.reviewers[k] : k \in 1..Len(vt.reviewers)}
                 = Positions(Experts) \ {vt.solver}
            /\ Len(vt.reviewers) = Len(Experts) - 1

C32_Witness ==
    /\ pc = "v_join"
    /\ Len(Experts) = 3
    /\ Experts[1].role # "planner"
    /\ Experts[2].role = "planner"
    /\ Experts[3].role = "planner"
    /\ vt.solver = 2
    /\ vt.reviewers = <<1, 3>>

\* C33: in a horizontal discussion the experts are called one at a time in
\* recruitment order, round K+1 starts only after every expert of round K has
\* answered, and the history in the prompt of every call of round K is the
\* same: the labelled responses of rounds 1..K-1, in order, and none of round K
C33_RoundHistory ==
    pc \in {"h_call", "h_round_end", "h_synth"} =>
        LET n == Len(Experts)
        IN  /\ tasks = <<>>
            /\ Len(hz.calls) = (hz.round_num - 1) * n + Len(hz.round_responses)
            /\ Len(hz.discussion_rounds) \in {hz.round_num - 1, hz.round_num}
            /\ \A c \in 1..Len(hz.calls) :
                 LET call    == hz.calls[c]
                     K       == ((c - 1) \div n) + 1
                     history == IF call.discussion_history = None
                                THEN <<>> ELSE call.discussion_history[1]
                 IN  /\ call.round_num = K
                     /\ call.expert = ((c - 1) % n) + 1
                     /\ Len(history) = K - 1
                     /\ \A k \in 1..(K - 1) :
                          /\ history[k].round = k
                          /\ Len(history[k].lines) = n
                          /\ \A i \in 1..n :
                               LET resp == hz.discussion_rounds[k].responses[i]
                               IN  /\ resp.index = Experts[i].index
                                   /\ history[k].lines[i] =
                                        [label     |-> Experts[i].role,
                                         ok        |-> resp.ok,
                                         consensus |-> resp.consensus]

C33_Witness ==
    /\ pc = "h_round_end"
    /\ Len(Experts) = 2
    /\ hz.round_num = 3
    /\ Len(hz.calls) = 6
    /\ hz.calls[5].discussion_history = hz.calls[6].discussion_history
    /\ Len(hz.calls[6].discussion_history[1]) = 2
    /\ ~hz.calls[6].discussion_history[1][1].lines[2].ok

\* C34: a horizontal deliberation issues its synthesis call once, when the
\* rounds are over and not before, with or without consensus: until then
\* llm_requests holds one record per answered worker call only and no decision
\* is set; at the synthesis there are between 1 and max_rounds rounds, one
\* worker call per expert and round, and consensus_reached is true exactly
\* when every response of the last round held the sentinel
C34_OneSynthesis ==
    /\ [](pc \in {"h_call", "h_round_end", "h_synth"} =>
            LET Answered(r) == r.ok
                Answers(responses) == Len(SelectSeq(responses, Answered))
                past[k \in 0..Len(hz.discussion_rounds)] ==
                    IF k = 0 THEN 0
                    ELSE past[k - 1] + Answers(hz.discussion_rounds[k].responses)
                current == IF pc = "h_synth" THEN 0 ELSE Answers(hz.round_responses)
            IN  /\ state.decision = None
                /\ Len(state.llm_requests) =
                     Len(LogAfter(0)) + past[Len(hz.discussion_rounds)] + current)
    /\ [][pc = "h_synth" =>
            LET rounds == Len(hz.discussion_rounds)
                last   == hz.discussion_rounds[rounds].responses
            IN  /\ rounds \in 1..max_rounds
                /\ Len(hz.calls) = rounds * Len(Experts)
                /\ hz.consensus_reached <=>
                     \A i \in 1..Len(last) : last[i].consensus
                /\ pc' \in {"execute", "raised"}
                /\ pc' = "raised" => state' = state
                /\ pc' = "execute" =>
                     /\ Len(state'.llm_requests) = Len(state.llm_requests) + 1
                     /\ state'.llm_requests[Len(state'.llm_requests)].stage = "decision"
                     /\ state'.decision[1].rounds = rounds
                     /\ state'.decision[1].consensus_reached = hz.consensus_reached]_vars

C34_Witness ==
    /\ pc = "execute"
    /\ state.decision # None
    /\ state.decision[1].structure_used = "horizontal"
    /\ state.decision[1].rounds = 2
    /\ state.decision[1].consensus_reached
    /\ Len(Experts) = 2
    /\ Len(state.llm_requests) = Len(LogAfter(0)) + 2 * 2 + 1

\* C35: every recruitment recruit_experts returns has between 1 and
\* MAX_PARALLEL_WORKERS experts, each with a non-empty endpoint, whatever the
\* LLM answered: without an experts key or with an empty list it is the
\* single default executor bound to AGENT_B_URLS[0], and a longer list is cut
\* to its first MAX_PARALLEL_WORKERS entries
C35_ExpertsBounded ==
    pc = "built" =>
        LET experts == ret[1].experts
            raw     == DictGet(arg.experts, <<>>)
        IN  /\ Len(experts) \in 1..MAX_PARALLEL_WORKERS
            /\ \A i \in 1..Len(experts) : ~IsBlank(experts[i].endpoint)
            /\ raw = <<>> =>
                 experts = <<[role |-> "executor", endpoint |-> AGENT_B_URLS[1],
                              index |-> 0]>>
            /\ raw # <<>> =>
                 /\ Len(experts) = Min(Len(raw), MAX_PARALLEL_WORKERS)
                 /\ \A i \in 1..Len(experts) :
                      experts[i].role = DictGet(raw[i].role, "executor")

(***************************************************************************)
(* _call_agent_b (lines 199-300) on its own: one call of the worker        *)
(* transport, from the validation of the URL to the answer of the HTTP     *)
(* client.  http_client.post blocks the caller; the request in flight is   *)
(* the state between TransportPost and TransportRespond.                   *)
(***************************************************************************)
\* the agent_b_url arguments of a call: absent, empty, blank, or a URL
TransportEndpoints == {None, Some(""), Some(" "), Some("u1"), Some(" u2 ")}

\* what http_client.post, raise_for_status and resp.json() end with
\* (lines 236-243): a 2xx answer with a JSON body, httpx.ConnectError,
\* httpx.TimeoutException, a non-2xx status, or a body that is not JSON
TransportResponses == {"ok", "ConnectError", "TimeoutException", "HTTPStatusError", "JSONDecodeError"}

\* largest max_iterations of the workflow state a transport call is made in
MaxTransportIterations == 2

\* the workflow states a call is made in: any iteration, a log of 0 to 2 records
TransportStates ==
    {[NewState(mi, 70) EXCEPT !.iteration = it, !.llm_requests = LogAfter(n - 1)] :
        mi \in 1..MaxTransportIterations, it \in 0..(MaxTransportIterations - 1), n \in 0..2}

TransportInit ==
    /\ NoBackend
    /\ DEFAULT_AGENT_B_URL \in DefaultUrls
    /\ http_posts = <<>>
    /\ AGENT_B_URLS \in {AgentBUrls(entries, DEFAULT_AGENT_B_URL) :
                            entries \in {<<>>, <<"u1", " u2 ">>}}
    /\ state \in TransportStates
    /\ pc = "t_call"
    /\ feedback = None
    /\ hz = NoLocals
    /\ vt = NoLocals
    /\ ex = NoLocals
    /\ tasks = <<>>
    /\ fault_budget = 0
    /\ bodies = 0
    /\ progress = <<>>
    /\ callback_faults = 0
    /\ llm_answer = None
    /\ arg \in [agent_b_url : TransportEndpoints]
    /\ ret = None

\* the caller retries after a connection failure
AfterResponse_retries(response) ==
    CASE response = "ok"           -> "t_returned"
      [] response = "ConnectError" -> "t_call"
      [] OTHER                     -> "t_raised"

\* lines 242-300: the dict is returned on a 2xx answer; every except block
\* ends in a raise, and an exception that no block catches propagates
AfterResponse(response) == IF response = "ok" THEN "t_returned" ELSE "t_raised"

\* lines 250-300: the exception the caller sees
RaisedBy(response) ==
    CASE response = "ConnectError"     -> "ConnectionError"
      [] response = "TimeoutException" -> "TimeoutError"
      [] OTHER                         -> response

\* lines 210-241: the payload, the target URL and its validation, then the
\* request is posted
TransportPost ==
    /\ pc = "t_call"
    /\ LET target_url == TargetUrl(arg.agent_b_url, DEFAULT_AGENT_B_URL)
       IN  IF IsBlank(target_url)
           THEN /\ ret' = Some([raised |-> "ValueError"])
                /\ pc' = "t_raised"
                /\ UNCHANGED http_posts
           ELSE /\ http_posts' = Append(http_posts, target_url)
                /\ pc' = "t_posted"
                /\ UNCHANGED ret
    /\ UNCHANGED <<AGENT_B_URLS, DEFAULT_AGENT_B_URL, backend_vars, progress, callback_faults, llm_answer, state, feedback, hz, vt, ex, tasks, fault_budget, bodies, arg>>

\* lines 242-300: the answer of the HTTP client
TransportRespond ==
    /\ pc = "t_posted"
    /\ \E response \in TransportResponses :
         /\ pc' = AfterResponse(response)
         /\ ret' = IF response = "ok"
                   THEN Some([output |-> "output"])
                   ELSE Some([raised |-> RaisedBy(response)])
    /\ UNCHANGED <<AGENT_B_URLS, transport_vars, backend_vars, progress, callback_faults, llm_answer, state, feedback, hz, vt, ex, tasks, fault_budget, bodies, arg>>

TransportNext ==
    \/ TransportPost
    \/ TransportRespond

TransportSpec == TransportInit /\ [][TransportNext]_vars

\* C36: a call of the worker transport whose endpoint is empty or blank
\* fails with a configuration error before any I/O: no request is posted to
\* any URL
C36_EmptyEndpointNoRequest ==
    arg.agent_b_url # None /\ IsBlank(arg.agent_b_url[1]) =>
        /\ http_posts = <<>>
        /\ pc \in {"t_call", "t_raised"}
        /\ pc = "t_raised" => ret = Some([raised |-> "ValueError"])

\* C37: the worker transport is pure: one invocation posts at most one
\* request (after a connection failure, a timeout or a non-2xx status it
\* posts nothing more and the failure is raised to the caller, which ends the
\* invocation), and the workflow state, llm_requests and iteration included,
\* is left as it was
C37_PureTransport ==
    /\ [](Len(http_posts) <= 1)
    /\ [][state' = state]_vars
    /\ [][pc = "t_posted" =>
            /\ http_posts' = http_posts
            /\ pc' \in {"t_returned", "t_raised"}
            /\ pc' = "t_returned" <=> ret' = Some([output |-> "output"])
            /\ pc' = "t_raised" =>
                 ret'[1].raised \in {"ConnectionError", "TimeoutError",
                                     "HTTPStatusError", "JSONDecodeError"}]_vars
    /\ [][pc \notin {"t_returned", "t_raised"}]_vars

C37_Witness ==
    /\ pc = "t_raised"
    /\ ret = Some([raised |-> "ConnectionError"])
    /\ http_posts = <<"u1">>
    /\ state.iteration = 1
    /\ Len(state.llm_requests) = 2

\* C38: the result of an executor subtask has success = true exactly when
\* the worker call of its expert succeeded at the transport layer (the task
\* went on to record the request, which gives it a seq); a failed call gives
\* the error result with success = false and no exception leaves the task
C38_SuccessIffTransport ==
    /\ \A i \in 1..Len(tasks) :
         /\ tasks[i].pc # "failed"
         /\ tasks[i].kind = "subtask" /\ tasks[i].pc = "done" =>
              (tasks[i].ok <=> tasks[i].seq # 0)
    /\ pc = "x_collect" =>
         \A k \in 1..Len(ex.outputs) :
            \E i \in 1..Len(tasks) :
               /\ tasks[i].collected
               /\ Experts[tasks[i].expert].index = ex.outputs[k].index
               /\ ex.outputs[k].success <=> tasks[i].seq # 0

\* C39: when state.execution is unset at the synthesis (the loop body never
\* ran) the synthesizer returns the fixed sentinel text, issues no LLM call
\* and appends nothing to llm_requests; otherwise it issues one LLM call, and
\* the record of that call is the last entry of llm_requests of the completed
\* workflow
C39_SynthesisCall ==
    /\ [][pc = "synthesis" =>
            IF state.execution = None
            THEN /\ pc' = "complete"
                 /\ state'.llm_requests = state.llm_requests
                 /\ state'.final_output = Some("No execution results available.")
            ELSE \/ pc' = "raised" /\ state' = state
                 \/ /\ pc' = "complete"
                    /\ state'.llm_requests =
                         Append(state.llm_requests,
                                [seq       |-> Len(state.llm_requests) + 1,
                                 iteration |-> state.iteration,
                                 stage     |-> "synthesis"])
                    /\ state'.final_output = Some("final")]_vars
    /\ [](state.completed =>
            LET n == Len(state.llm_requests)
                synthesis == {i \in 1..n : state.llm_requests[i].stage = "synthesis"}
            IN  IF state.execution = None
                THEN state.llm_requests = <<>> /\ bodies = 0
                ELSE synthesis = {n})

C39_Witness ==
    /\ state.completed
    /\ state.execution = None
    /\ bodies = 0
    /\ state.final_output = Some("No execution results available.")
    /\ state.llm_requests = <<>>

\* the place of a stage in the order recruitment, decision, execution,
\* evaluation, synthesis
StageRank(stage) ==
    CASE stage = "recruitment" -> 1
      [] stage = "decision"    -> 2
      [] stage = "execution"   -> 3
      [] stage = "evaluation"  -> 4
      [] stage = "synthesis"   -> 5

\* C40: along llm_requests, whatever the interleaving of the pool threads,
\* the iteration field never decreases and within one iteration the records
\* are grouped by stage in the order recruitment, decision, execution,
\* evaluation; a synthesis record is the last record of the log
C40_LogOrder ==
    LET log == state.llm_requests
    IN  /\ \A i \in 1..(Len(log) - 1) :
             /\ log[i].iteration <= log[i + 1].iteration
             /\ log[i].iteration = log[i + 1].iteration =>
                  StageRank(log[i].stage) <= StageRank(log[i + 1].stage)
        /\ \A i \in 1..Len(log) : log[i].stage = "synthesis" => i = Len(log)

\* two iterations, the subtasks of the first recorded with the same seq
C40_Witness ==
    LET log == state.llm_requests
    IN  /\ state.completed
        /\ state.iteration = 1
        /\ log[Len(log)].stage = "synthesis"
        /\ \E i \in 1..(Len(log) - 1) :
             /\ log[i].stage = "execution"
             /\ log[i + 1].stage = "execution"
             /\ log[i].seq = log[i + 1].seq
             /\ log[i].iteration = 0
        /\ \E i \in 1..Len(log) : log[i].stage = "evaluation" /\ log[i].iteration = 1

====
